---- MODULE Spec2Model ----
(***************************************************************************)
(* Verification model of vivarium_conic_lsff: the results observers        *)
(* (components/observers.py), the column-name templates (globals.py) and   *)
(* the reshaper's column decoders (results_processing/process_results.py). *)
(*                                                                         *)
(* Column names are real strings: they are built with \o exactly as the    *)
(* f-strings and templates build them and taken apart by Split, which is   *)
(* Python's str.split(sep).  Ages are in tenths of a year (0.5 years = 5), *)
(* person-time is in units of one step size, times are in steps since      *)
(* 2020-01-01.  The run of the Counter observers (Spec), the stratifier    *)
(* (StratSpec), the decoders (CodecSpec), the births, birth weight,        *)
(* hemoglobin and disability observers, the observers' setup and the       *)
(* metrics request each have a specification of their own; so have the     *)
(* mortality totals (MortalityTotalsSpec), the reshaper's pivot_data and   *)
(* sort_data (PivotSpec, SortTableSpec), simulants born during a step      *)
(* (NewbornSpec), the batches of LBWSGObserver (LBWSGSpec), RESULT_COLUMNS *)
(* (ColumnsSpec) and build_all_artifacts of tools/make_artifacts.py        *)
(* (BuildSpec, and BuildFairSpec for what it eventually does).             *)
(***************************************************************************)
EXTENDS Integers, Sequences, FiniteSets, TLC

VARIABLES
    pop,                    \* the host's population table: simulant -> row
    now,                    \* the clock, in steps since the start of the run
    phase,                  \* which event of the step the host fires next
    mortality_person_time,  \* MortalityObserver.person_time (Counter)
    person_time,            \* DiseaseObserver.person_time (Counter)
    counts,                 \* DiseaseObserver.counts (Counter)
    anemia_person_time,     \* AnemiaObserver.person_time (Counter)
    updates,                \* history: every partial mapping passed to a Counter.update
    metrics,                \* the host's metrics mapping after the last request
    configuration,          \* the by_age / by_sex / by_year toggles of the run
    groups,                 \* what the last ResultsStratifier.group call yielded
    family,                 \* reshaper: the measure family being decoded
    process,                \* reshaper: the 'process' column (one name per row)
    decoded,                \* reshaper: the decoder's outcome
    results,                \* HemoglobinLevelObserver.results: key -> list of samples
    collected,              \* history: the hemoglobin samples handed to update_list, per key
    lbwsg_results,          \* LBWSGObserver.results
    years_lived_with_disability,  \* DisabilityObserver.years_lived_with_disability (Counter)
    happened,               \* history: number of (simulant, step) pairs of each disease transition
    applied,                \* the metrics modifiers that have run in the current request
    raised,                 \* the exception a handler raised, "none" if none
    returned,               \* the mappings the completed metrics requests returned, in order
    data,                   \* reshaper: the table handed to pivot_data or sort_data
    output,                 \* reshaper: the table returned
    pop_data,               \* LBWSGObserver: the index of the latest simulant creation
    calls,                  \* history: the RESULT_COLUMNS calls made and their outcomes
    spent,                  \* the fields of TEMPLATE_FIELD_MAP whose generator has finished
    verbose,                \* build_all_artifacts: the verbose argument
    pc,                     \* build_all_artifacts: the statement it executes next
    cursor,                 \* build_all_artifacts: position of the running for loop
    jobs,                   \* build_all_artifacts: location -> status stored in jobs
    cluster,                \* the cluster: location -> state of the location's job
    polled                  \* history: session.jobStatus has been called

vars == <<pop, now, phase, mortality_person_time, person_time, counts,
          anemia_person_time, updates, metrics, configuration, groups, family, process, decoded,
          results, collected, lbwsg_results, years_lived_with_disability, happened, applied,
          raised, returned, data, output, pop_data, calls, spent, verbose, pc, cursor, jobs,
          cluster, polled>>

simVars == <<pop, now, phase, mortality_person_time, person_time, counts,
             anemia_person_time, updates, metrics, configuration>>
codecVars == <<family, process, decoded>>
obsVars == <<results, collected, lbwsg_results, years_lived_with_disability, applied, raised,
            returned>>
tableVars == <<data, output>>
columnVars == <<calls, spent>>
buildVars == <<verbose, pc, cursor, jobs, cluster, polled>>
toolVars == <<tableVars, pop_data, columnVars, buildVars>>

(***************************************************************************)
(* Bounds of the model.                                                    *)
(***************************************************************************)
NSims == 2          \* simulants in the population table
MaxSteps == 2       \* time steps of a run
StepsPerYear == 2   \* steps after which the clock's year changes

(***************************************************************************)
(* Strings.                                                                *)
(***************************************************************************)
NaN == "<NaN>"          \* pandas' missing value in a column of strings
Absent == "<absent>"    \* a column the decoder never created

\* s.find(d, i): the first position >= i where d occurs in s, 0 when none.
RECURSIVE Find(_, _, _)
Find(s, d, i) ==
    IF i + Len(d) - 1 > Len(s) THEN 0
    ELSE IF SubSeq(s, i, i + Len(d) - 1) = d THEN i
    ELSE Find(s, d, i + 1)

\* s.split(d)
RECURSIVE Split(_, _)
Split(s, d) ==
    LET j == Find(s, d, 1)
    IN  IF j = 0 THEN <<s>>
        ELSE <<SubSeq(s, 1, j - 1)>> \o Split(SubSeq(s, j + Len(d), Len(s)), d)

RECURSIVE SeqMax(_)
SeqMax(q) == IF q = <<>> THEN 0
             ELSE LET m == SeqMax(Tail(q)) IN IF Head(q) > m THEN Head(q) ELSE m

\* series.str.split(d): one list of parts per row, a missing value staying missing.
StrSplit(col, d) == [i \in DOMAIN col |-> IF col[i] = NaN THEN <<>> ELSE Split(col[i], d)]

\* series.str[k] (k counted from 1 here): the k-th part of each row, NaN where
\* the row has fewer parts.
StrGet(parts, k) == [i \in DOMAIN parts |-> IF Len(parts[i]) >= k THEN parts[i][k] ELSE NaN]

\* Iterating series.str (as `a, b = series.str.split(d).str` does) yields
\* .str[0], .str[1], ... until a column is missing in every row: as many columns
\* as the longest row has parts.  Unpacking into n names raises ValueError unless
\* exactly n columns are yielded.
StrColumns(parts) == SeqMax([i \in DOMAIN parts |-> Len(parts[i])])

(***************************************************************************)
(* globals.py: names, templates and label spaces.                          *)
(***************************************************************************)
DIARRHEA_MODEL_NAME == "diarrheal_diseases"
DIARRHEA_SUSCEPTIBLE_STATE_NAME == "susceptible_to_" \o DIARRHEA_MODEL_NAME
DIARRHEA_WITH_CONDITION_STATE_NAME == DIARRHEA_MODEL_NAME
DIARRHEA_MODEL_STATES == <<DIARRHEA_SUSCEPTIBLE_STATE_NAME, DIARRHEA_WITH_CONDITION_STATE_NAME>>

\* A transition's name is '<from>_TO_<to>'; observers.py reads its from_state
\* and to_state.
TransitionString(from, to) ==
    [name |-> from \o "_TO_" \o to, from_state |-> from, to_state |-> to]
DIARRHEA_MODEL_TRANSITIONS ==
    <<TransitionString(DIARRHEA_SUSCEPTIBLE_STATE_NAME, DIARRHEA_WITH_CONDITION_STATE_NAME),
      TransitionString(DIARRHEA_WITH_CONDITION_STATE_NAME, DIARRHEA_SUSCEPTIBLE_STATE_NAME)>>

SEXES == <<"male", "female">>
CAUSES_OF_DEATH == <<"other_causes", DIARRHEA_WITH_CONDITION_STATE_NAME>>
CAUSES_OF_DISABILITY == <<DIARRHEA_WITH_CONDITION_STATE_NAME>>

\* The keys of COLUMN_TEMPLATES.
COLUMN_TEMPLATES ==
    {"population", "person_time", "deaths", "ylls", "ylds",
     "state_person_time", "transition_count"}

\* The stratification groups of ResultsStratifier and the hemoglobin categories.
FOLIC_ACID_FORTIFICATION_GROUPS == <<"uncovered", "covered">>
VITAMIN_A_FORTIFICATION_GROUPS == <<"uncovered", "covered", "effectively_covered">>
HEMOGLOBIN_AGE_GROUPS == <<"0.5", "1.0">>
HEMOGLOBIN_STATUS_GROUPS == <<"covered", "uncovered">>
HEMOGLOBIN_RESPONSE_GROUPS == <<"responsive", "non-responsive">>
ANEMIA_SEVERITY_GROUPS == <<"none", "mild">>

\* The age bins the host supplies (get_age_bins): half-open [age_start, age_end),
\* in tenths of a year, named as they appear in a column name.
AgeBins ==
    <<[age_group |-> "post_neonatal", age_start |-> 0, age_end |-> 10],
      [age_group |-> "1_to_4", age_start |-> 10, age_end |-> 50]>>

\* The years a run's clock can show.
YearOf(t) == 2020 + (t \div StepsPerYear)
Years == {YearOf(t) : t \in 0..(MaxSteps + 1)}

Range(q) == {q[i] : i \in DOMAIN q}

(***************************************************************************)
(* Column names.                                                           *)
(***************************************************************************)
Config == [by_age : BOOLEAN, by_sex : BOOLEAN, by_year : BOOLEAN]
AllOn == [by_age |-> TRUE, by_sex |-> TRUE, by_year |-> TRUE]
AllOff == [by_age |-> FALSE, by_sex |-> FALSE, by_year |-> FALSE]

\* get_output_template(**config).substitute(measure=, year=, sex=, age_group=):
\* '<measure>_in_<year>_among_<sex>_in_age_group_<age_group>', a disabled
\* dimension's segment left out (the all-enabled form is
\* PERSON_TIME_COLUMN_TEMPLATE and its siblings).
OutputTemplate(config, measure, year, sex, age_group) ==
    measure
    \o (IF config.by_year THEN "_in_" \o year ELSE "")
    \o (IF config.by_sex THEN "_among_" \o sex ELSE "")
    \o (IF config.by_age THEN "_in_age_group_" \o age_group ELSE "")

\* ResultsStratifier.update_labels, on one key.
update_label(k, labels) ==
    k \o "_folic_acid_" \o labels[1] \o "_vitamin_a_" \o labels[2]

\* ResultsStratifier.update_labels: every key of measure_data renamed, values kept.
update_labels(measure_data, labels) ==
    LET pairs == {<<update_label(k, labels), measure_data[k]>> : k \in DOMAIN measure_data}
    IN  [r \in {p[1] : p \in pairs} |-> (CHOOSE p \in pairs : p[1] = r)[2]]

(***************************************************************************)
(* The keys the observers emit, as (labels, name) pairs.                   *)
(***************************************************************************)
YearLabels == {ToString(y) : y \in Years}
StratLabels == {<<f, v>> : f \in Range(FOLIC_ACID_FORTIFICATION_GROUPS),
                           v \in Range(VITAMIN_A_FORTIFICATION_GROUPS)}

\* The measure names of the observers that take the stratifier's suffix:
\* get_person_time, get_deaths / get_years_of_life_lost (MortalityObserver),
\* get_years_lived_with_disability (DisabilityObserver), get_state_person_time
\* and get_transition_count (DiseaseObserver).
MeasuresNoCause ==
    {[measure |-> "person_time", cause |-> Absent]}
    \cup {[measure |-> st \o "_person_time", cause |-> Absent] : st \in Range(DIARRHEA_MODEL_STATES)}
    \cup {[measure |-> tr.name \o "_event_count", cause |-> Absent] : tr \in Range(DIARRHEA_MODEL_TRANSITIONS)}
MeasuresWithCause ==
    {[measure |-> "death", cause |-> c] : c \in Range(CAUSES_OF_DEATH)}
    \cup {[measure |-> "ylls", cause |-> c] : c \in Range(CAUSES_OF_DEATH)}
    \cup {[measure |-> "ylds", cause |-> c] : c \in Range(CAUSES_OF_DISABILITY)}

\* The measure as it stands in the key: '<measure>_due_to_<cause>' with a cause.
MeasureName(m) == IF m.cause = Absent THEN m.measure ELSE m.measure \o "_due_to_" \o m.cause

\* One stratified observer key: base key from the output template, then the
\* suffix of ResultsStratifier.update_labels.
ObserverKey(config, m, year, sex, age_group, labels) ==
    update_label(OutputTemplate(config, MeasureName(m), year, sex, age_group), labels)

MeasureLabels(ms) ==
    {[measure |-> m.measure, cause |-> m.cause, year |-> y, sex |-> sx,
      age_group |-> AgeBins[a].age_group,
      folic_acid_fortification_group |-> l[1], vitamin_a_fortification_group |-> l[2]] :
        m \in ms, y \in YearLabels, sx \in Range(SEXES), a \in DOMAIN AgeBins, l \in StratLabels}

EncodeMeasure(r) ==
    ObserverKey(AllOn, [measure |-> r.measure, cause |-> r.cause], r.year, r.sex, r.age_group,
                <<r.folic_acid_fortification_group, r.vitamin_a_fortification_group>>)

\* HemoglobinLevelObserver.on_collect_metrics: the key a sample list is extended
\* under, get_hemoglobin_stats' key followed by the age/status/response suffix.
HbStatKeyForSex(sex) == "hemoglobin_mean_among_" \o sex
\* The key with '_age_' where the template has '_at_age_'.
HbCollectKeyNoAt(sex, age, cov_label, resp_label) ==
    HbStatKeyForSex(sex) \o "_age_" \o age \o "_status_" \o cov_label \o "_responsive_" \o resp_label
HbCollectKey(sex, age, cov_label, resp_label) ==
    HbStatKeyForSex(sex) \o "_at_age_" \o age \o "_status_" \o cov_label \o "_responsive_" \o resp_label

\* HemoglobinLevelObserver.get_results_template: every key, each with the list [0.0].
HbTemplateKey(sex, age, covered_cat, responsive_cat) ==
    "hemoglobin_mean_among_" \o sex \o "_at_"
    \o ("age_" \o age \o "_status_" \o covered_cat \o "_responsive_" \o responsive_cat)
get_results_template ==
    LET keys == {HbTemplateKey(sx, a, c, r) :
                    sx \in Range(SEXES), a \in Range(HEMOGLOBIN_AGE_GROUPS),
                    c \in Range(HEMOGLOBIN_STATUS_GROUPS), r \in Range(HEMOGLOBIN_RESPONSE_GROUPS)}
    IN  [k \in keys |-> <<0>>]

\* The labels on_collect_metrics itself uses (its literals, and the sexes its
\* get_hemoglobin_stats queries, as they stand in the key).
HbLabels ==
    {[measure |-> "hemoglobin_mean", sex |-> sx, age |-> a, status |-> c, responsive |-> r] :
        sx \in {"male", "female"}, a \in Range(HEMOGLOBIN_AGE_GROUPS),
        c \in {"covered", "uncovered"}, r \in {"responsive", "non-responsive"}}
EncodeHb(r) == HbCollectKey(r.sex, r.age, r.status, r.responsive)

\* AnemiaObserver.on_time_step_prepare: 'anemia_<state>_person_time' through the
\* output template, no stratifier suffix.
AnemiaKey(config, state, year, sex, age_group) ==
    OutputTemplate(config, "anemia_" \o state \o "_person_time", year, sex, age_group)
AnemiaLabels ==
    {[measure |-> "anemia_" \o st, year |-> y, sex |-> sx, age_group |-> AgeBins[a].age_group] :
        st \in Range(ANEMIA_SEVERITY_GROUPS), y \in YearLabels, sx \in Range(SEXES),
        a \in DOMAIN AgeBins}
EncodeAnemia(r) ==
    OutputTemplate(AllOn, r.measure \o "_person_time", r.year, r.sex, r.age_group)

\* get_birth_weights: the mean and sd keys of one (year, sex, treatment group).
BirthWeightKey(stat, year, sex, treatment_group) ==
    "birth_weight_" \o stat \o "_in_" \o year \o "_among_" \o sex
    \o "_iron_fortification_group_" \o treatment_group
BirthWeightLabels ==
    {[measure |-> "birth_weight_" \o st, year |-> y, sex |-> sx, iron_fortification_group |-> g] :
        st \in {"mean", "sd"}, y \in YearLabels, sx \in {"male", "female"},
        g \in {"covered", "uncovered"}}
EncodeBirthWeight(r) ==
    BirthWeightKey(SubSeq(r.measure, Len("birth_weight_") + 1, Len(r.measure)),
                   r.year, r.sex, r.iron_fortification_group)

\* LiveBirthWithNTDObserver: get_births' keys (by_age is forced off, so there is
\* no age-group segment) with the stratifier's suffix.
BirthConfig == [by_age |-> FALSE, by_sex |-> TRUE, by_year |-> TRUE]
BirthKey(measure, year, sex, labels) ==
    update_label(OutputTemplate(BirthConfig, measure, year, sex, ""), labels)
BirthLabels ==
    {[measure |-> m, year |-> y, sex |-> sx,
      folic_acid_fortification_group |-> l[1], vitamin_a_fortification_group |-> l[2]] :
        m \in {"live_births", "born_with_ntds"}, y \in YearLabels, sx \in Range(SEXES),
        l \in StratLabels}
EncodeBirth(r) ==
    BirthKey(r.measure, r.year, r.sex,
             <<r.folic_acid_fortification_group, r.vitamin_a_fortification_group>>)

(***************************************************************************)
(* process_results.py: the reshaper's decoders.  A decoder takes the       *)
(* 'process' column (one column name per long-format row) and returns the  *)
(* new columns, or ends in ValueError when a tuple unpacking of            *)
(* `series.str.split(d).str` does not get exactly as many columns as names.*)
(***************************************************************************)
ValueError == [status |-> "ValueError", rows |-> <<>>]
NotDecoded == [status |-> "none", rows |-> <<>>]

\* The returned frame: row i holds column c's i-th value.
Frame(col, columns) ==
    [status |-> "ok",
     rows |-> [i \in DOMAIN col |-> [c \in DOMAIN columns |-> columns[c][i]]]]

Field(row, c) == IF c \in DOMAIN row THEN row[c] ELSE Absent

\* split_processing_column(data, with_cause)
split_processing_column(col, with_cause) ==
    LET p1 == StrSplit(col, "_in_")
        measure0 == StrGet(p1, 1)
        p2 == StrSplit(measure0, "_due_to_")
        rest2 == StrGet(StrSplit(StrGet(p1, 3), "age_group_"), 2)
        p3 == StrSplit(rest2, "_folic_acid_")
        p4 == StrSplit(StrGet(p3, 2), "_vitamin_a_")
    IN  IF StrColumns(p1) # 3 THEN ValueError
        ELSE IF with_cause /\ StrColumns(p2) # 2 THEN ValueError
        ELSE IF StrColumns(p3) # 2 THEN ValueError
        ELSE IF StrColumns(p4) # 2 THEN ValueError
        ELSE IF with_cause
             THEN Frame(col, [measure |-> StrGet(p2, 1), cause |-> StrGet(p2, 2),
                              year |-> StrGet(p1, 2), age_group |-> StrGet(p3, 1),
                              folic_acid_fortification_group |-> StrGet(p4, 1),
                              vitamin_a_fortification_group |-> StrGet(p4, 2)])
             ELSE Frame(col, [measure |-> measure0,
                              year |-> StrGet(p1, 2), age_group |-> StrGet(p3, 1),
                              folic_acid_fortification_group |-> StrGet(p4, 1),
                              vitamin_a_fortification_group |-> StrGet(p4, 2)])

\* split_hb_processing_column(data)
split_hb_processing_column(col) ==
    LET p1 == StrSplit(col, "_among_")
        p2 == StrSplit(StrGet(p1, 2), "_at_age_")
        p3 == StrSplit(StrGet(p2, 2), "_status_")
        p4 == StrSplit(StrGet(p3, 2), "_responsive_")
    IN  IF StrColumns(p1) # 2 THEN ValueError
        ELSE IF StrColumns(p2) # 2 THEN ValueError
        ELSE IF StrColumns(p3) # 2 THEN ValueError
        ELSE IF StrColumns(p4) # 2 THEN ValueError
        ELSE Frame(col, [measure |-> StrGet(p1, 1), sex |-> StrGet(p2, 1), age |-> StrGet(p3, 1),
                         status |-> StrGet(p4, 1), responsive |-> StrGet(p4, 2)])

\* split_anemia_processing_column(data)
split_anemia_processing_column(col) ==
    LET p1 == StrSplit(col, "_person_time_in_")
        p2 == StrSplit(StrGet(p1, 2), "_among_")
        p3 == StrSplit(StrGet(p2, 2), "_in_age_group_")
    IN  IF StrColumns(p1) # 2 THEN ValueError
        ELSE IF StrColumns(p2) # 2 THEN ValueError
        ELSE IF StrColumns(p3) # 2 THEN ValueError
        ELSE Frame(col, [measure |-> StrGet(p1, 1), year |-> StrGet(p2, 1),
                         sex |-> StrGet(p3, 1), age_group |-> StrGet(p3, 2)])

\* split_birthweight_processing_column(data)
split_birthweight_processing_column(col) ==
    LET p1 == StrSplit(col, "_in_")
        p2 == StrSplit(StrGet(p1, 2), "_among_")
        p3 == StrSplit(StrGet(p2, 2), "_iron_fortification_group_")
    IN  IF StrColumns(p1) # 2 THEN ValueError
        ELSE IF StrColumns(p2) # 2 THEN ValueError
        ELSE IF StrColumns(p3) # 2 THEN ValueError
        ELSE Frame(col, [measure |-> StrGet(p1, 1), year |-> StrGet(p2, 1),
                         sex |-> StrGet(p3, 1), iron_fortification_group |-> StrGet(p3, 2)])

\* RESULT_COLUMNS(kind) raises ValueError for a kind that is neither a key of
\* COLUMN_TEMPLATES nor 'all'.
RESULT_COLUMNS_raises(kind) == kind \notin COLUMN_TEMPLATES /\ kind # "all"

\* get_births(data, with_ntds), after its column selection: the year, sex and
\* folic-acid group are split off the name; the measure is set from with_ntds
\* and the vitamin-A part is discarded.
get_births_split(col, with_ntds) ==
    LET p1 == StrSplit(StrGet(StrSplit(col, "_in_"), 2), "_among_")
        p2 == StrSplit(StrGet(p1, 2), "_folic_acid_")
        p3 == StrSplit(StrGet(p2, 2), "_vitamin_a_")
    IN  IF StrColumns(p1) # 2 THEN ValueError
        ELSE IF StrColumns(p2) # 2 THEN ValueError
        ELSE IF StrColumns(p3) # 2 THEN ValueError
        ELSE Frame(col, [measure |-> [i \in DOMAIN col |->
                                         IF with_ntds THEN "live_births_with_ntds" ELSE "live_births"],
                         year |-> StrGet(p1, 1), sex |-> StrGet(p2, 1),
                         folic_acid_fortification_group |-> StrGet(p3, 1)])

\* get_births(data, with_ntds): RESULT_COLUMNS(key) selects the columns first.
get_births(col, with_ntds) ==
    LET key == IF with_ntds THEN "born_with_ntds" ELSE "births"
    IN  IF RESULT_COLUMNS_raises(key) THEN ValueError
        ELSE get_births_split(col, with_ntds)

(***************************************************************************)
(* The reshaper's inputs: the names the observers emit, and names that do  *)
(* not follow a decoder's grammar (one of its delimiters missing, or       *)
(* occurring once more than the grammar has it).                           *)
(***************************************************************************)
Families == {"measure", "cause_measure", "hemoglobin", "anemia", "birth_weight", "births"}

Labels(f) ==
    CASE f = "measure" -> MeasureLabels(MeasuresNoCause)
      [] f = "cause_measure" -> MeasureLabels(MeasuresWithCause)
      [] f = "hemoglobin" -> HbLabels
      [] f = "anemia" -> AnemiaLabels
      [] f = "birth_weight" -> BirthWeightLabels
      [] f = "births" -> BirthLabels

Encode(f, r) ==
    CASE f \in {"measure", "cause_measure"} -> EncodeMeasure(r)
      [] f = "hemoglobin" -> EncodeHb(r)
      [] f = "anemia" -> EncodeAnemia(r)
      [] f = "birth_weight" -> EncodeBirthWeight(r)
      [] f = "births" -> EncodeBirth(r)

Emitted(f) == {Encode(f, r) : r \in Labels(f)}

\* The delimiters each decoder splits on.
Delimiters(f) ==
    CASE f = "measure" -> {"_in_", "age_group_", "_folic_acid_", "_vitamin_a_"}
      [] f = "cause_measure" -> {"_in_", "_due_to_", "age_group_", "_folic_acid_", "_vitamin_a_"}
      [] f = "hemoglobin" -> {"_among_", "_at_age_", "_status_", "_responsive_"}
      [] f = "anemia" -> {"_person_time_in_", "_among_", "_in_age_group_"}
      [] f = "birth_weight" -> {"_in_", "_among_", "_iron_fortification_group_"}
      [] f = "births" -> {"_in_", "_among_", "_folic_acid_", "_vitamin_a_"}

DropFirst(k, d) ==
    LET j == Find(k, d, 1)
    IN  IF j = 0 THEN k ELSE SubSeq(k, 1, j - 1) \o SubSeq(k, j + Len(d), Len(k))
RepeatFirst(k, d) ==
    LET j == Find(k, d, 1)
    IN  IF j = 0 THEN k
        ELSE SubSeq(k, 1, j + Len(d) - 1) \o "x" \o SubSeq(k, j, Len(k))
Trailing(k, d) == k \o d \o "x"

SampleKey(f) == CHOOSE k \in Emitted(f) : TRUE
Malformed(f) ==
    UNION {{DropFirst(SampleKey(f), d), RepeatFirst(SampleKey(f), d), Trailing(SampleKey(f), d)} :
            d \in Delimiters(f)}

\* The 'process' columns tried: one name, or one name beside a second row.
Batches(f) ==
    {<<k>> : k \in Emitted(f) \cup Malformed(f)}
    \cup {<<k, c>> : k \in Emitted(f) \cup Malformed(f), c \in {SampleKey(f)} \cup Malformed(f)}

(***************************************************************************)
(* The population table and ResultsStratifier.                             *)
(***************************************************************************)
Sims == 1..NSims

\* pop[i] is simulant i's row.  vitamin_a_raw is the value of the pipeline
\* 'vitamin_a_fortification.effectively_covered'; vitamin_a_coverage_start is
\* TRUE when the coverage-start column is not null.
Index(population) == DOMAIN population
Restrict(population, S) == [i \in S |-> population[i]]

DiseaseColumn(row) == row.diarrheal_diseases
PreviousColumn(row) == row.previous_diarrheal_diseases

\* ResultsStratifier.folic_acid_covered: the coverage column, per simulant.
folic_acid_covered(population) ==
    [i \in Index(population) |-> population[i].fa_fortification_coverage]

\* Ages are in tenths of a year.  A threshold that leaves out 0.5 itself:
UnderageStrict(age) == age < 5
\* underage = pop.age <= 0.5
Underage(age) == age <= 5

\* vitamin_a_covered with the 'covered' mask taken from the high raw category
\* with a coverage start, where the code takes the low one.
VitaminACoveredAsSpecified(row) ==
    LET raw_coverage == IF row.vitamin_a_raw = "cat1" THEN "uncovered" ELSE "effectively_covered"
        started == row.vitamin_a_coverage_start
        underage == Underage(row.age)
        uncovered == (raw_coverage = "uncovered") /\ ~started
        covered == ((raw_coverage = "effectively_covered") /\ started)
                   \/ ((raw_coverage = "effectively_covered") /\ underage)
        effectively_covered == (raw_coverage = "effectively_covered") /\ ~underage
        after1 == IF uncovered THEN "uncovered" ELSE raw_coverage
        after2 == IF covered THEN "covered" ELSE after1
    IN  IF effectively_covered THEN "effectively_covered" ELSE after2
\* ResultsStratifier.vitamin_a_covered, for one row: the pipeline's category is
\* mapped ('cat1' -> 'uncovered', 'cat2' -> 'effectively_covered'), the three
\* masks are computed from it, and then assigned in this order.
vitamin_a_covered_row(row) ==
    LET raw_coverage == IF row.vitamin_a_raw = "cat1" THEN "uncovered" ELSE "effectively_covered"
        started == row.vitamin_a_coverage_start
        underage == Underage(row.age)
        uncovered == (raw_coverage = "uncovered") /\ ~started
        covered == ((raw_coverage = "uncovered") /\ started)
                   \/ ((raw_coverage = "effectively_covered") /\ underage)
        effectively_covered == (raw_coverage = "effectively_covered") /\ ~underage
        after1 == IF uncovered THEN "uncovered" ELSE raw_coverage
        after2 == IF covered THEN "covered" ELSE after1
    IN  IF effectively_covered THEN "effectively_covered" ELSE after2

vitamin_a_covered(population) ==
    [i \in Index(population) |-> vitamin_a_covered_row(population[i])]

\* itertools.product(FOLIC_ACID_FORTIFICATION_GROUPS, VITAMIN_A_FORTIFICATION_GROUPS),
\* in its order.
GroupLabels ==
    LET nv == Len(VITAMIN_A_FORTIFICATION_GROUPS)
    IN  [n \in 1..(Len(FOLIC_ACID_FORTIFICATION_GROUPS) * nv) |->
            <<FOLIC_ACID_FORTIFICATION_GROUPS[((n - 1) \div nv) + 1],
              VITAMIN_A_FORTIFICATION_GROUPS[((n - 1) % nv) + 1]>>]

\* group with '|' where the code has '&' between the two comparisons.
GroupEitherMatches(population) ==
    [n \in DOMAIN GroupLabels |->
        <<GroupLabels[n],
          Restrict(population,
                   {i \in Index(population) :
                       \/ folic_acid_covered(population)[i] = GroupLabels[n][1]
                       \/ vitamin_a_covered(population)[i] = GroupLabels[n][2]})>>]
\* group yielding only the labels that have members.
GroupSkipsEmpty(population) ==
    SelectSeq([n \in DOMAIN GroupLabels |->
                  <<GroupLabels[n],
                    Restrict(population,
                             {i \in Index(population) :
                                 /\ folic_acid_covered(population)[i] = GroupLabels[n][1]
                                 /\ vitamin_a_covered(population)[i] = GroupLabels[n][2]})>>],
              LAMBDA g : Index(g[2]) # {})
\* ResultsStratifier.group: one (labels, pop_in_group) pair per label, the whole
\* (empty) population for every label when the population is empty.
group(population) ==
    [n \in DOMAIN GroupLabels |->
        <<GroupLabels[n],
          IF Index(population) = {}
          THEN population
          ELSE Restrict(population,
                        {i \in Index(population) :
                            /\ folic_acid_covered(population)[i] = GroupLabels[n][1]
                            /\ vitamin_a_covered(population)[i] = GroupLabels[n][2]})>>]

(***************************************************************************)
(* Counters and the per-group measure getters.                             *)
(***************************************************************************)
EmptyMap == [k \in {} |-> 0]

Get(m, k) == IF k \in DOMAIN m THEN m[k] ELSE 0

\* dict.update(mapping) in the place of Counter.update: the values held are
\* replaced, not added to.
DictUpdate(counter, mapping) == mapping @@ counter

\* collections.Counter.update(mapping): the mapping's values are ADDED to the
\* counts already held; a key not yet held starts from 0.
CounterUpdate(counter, mapping) ==
    [k \in DOMAIN mapping |-> Get(counter, k) + mapping[k]] @@ counter

\* An assignment in the place of dict.update: the mapping handed in is lost.
MetricsReplace(m, mapping) == mapping

\* dict.update(mapping), as the metrics mapping is updated: values replaced.
MetricsUpdate(m, mapping) == mapping @@ m

\* The history of one accumulator: per key, the values passed to update at
\* that key, in order.
RecordUpdate(history, mapping) ==
    [k \in DOMAIN mapping |->
        (IF k \in DOMAIN history THEN history[k] ELSE <<>>) \o <<mapping[k]>>] @@ history

RECURSIVE SeqSum(_)
SeqSum(q) == IF q = <<>> THEN 0 ELSE Head(q) + SeqSum(Tail(q))

\* The sum of f over the set S of its arguments.
RECURSIVE SumOver(_, _)
SumOver(S, f) ==
    IF S = {} THEN 0
    ELSE LET x == CHOOSE y \in S : TRUE IN f[x] + SumOver(S \ {x}, f)

\* len(x), per row.
One(population) == [i \in Index(population) |-> 1]

\* The mapping holding value v at key k for every <<k, v>> of `pairs`.
PairsToMap(pairs) ==
    [k \in {p[1] : p \in pairs} |-> (CHOOSE p \in pairs : p[1] = k)[2]]

MapPairs(m) == {<<k, m[k]>> : k \in DOMAIN m}

\* The sexes and age groups get_group_counts iterates over, and the label the
\* output template writes for a sex (lower-cased).
SexIterable(config) == IF config.by_sex THEN {"Male", "Female"} ELSE {"Both"}
AgeIterable(config) ==
    IF config.by_age THEN Range(AgeBins)
    ELSE {[age_group |-> "all_ages", age_start |-> 0, age_end |-> 0]}
SexLabel(sex) ==
    CASE sex = "Male" -> "male" [] sex = "Female" -> "female" [] sex = "Both" -> "both"

\* get_group_counts(pop, base_filter, base_key, config, age_bins, aggregate): one
\* key per (age group, sex) of the configuration, aggregating the rows that pass
\* the base filter and lie in that age group and sex.  The aggregates used are
\* sums of a per-row weight (len(x) * step size, len(x), a sum of life
\* expectancies); base_filter and aggregate are given per row (by index) of the population.
get_group_counts(population, base_filter, config, measure, year, aggregate) ==
    LET cells == {<<a, sx>> : a \in AgeIterable(config), sx \in SexIterable(config)}
        InCell(c) ==
            {i \in Index(population) :
                /\ base_filter[i]
                /\ config.by_age =>
                      (c[1].age_start <= population[i].age /\ population[i].age < c[1].age_end)
                /\ config.by_sex => population[i].sex = c[2]}
        pairs == {<<OutputTemplate(config, measure, ToString(year), SexLabel(c[2]), c[1].age_group),
                    SumOver(InCell(c), aggregate)>> : c \in cells}
    IN  PairsToMap(pairs)

IsAlive(population) == [i \in Index(population) |-> population[i].alive = "alive"]

\* get_person_time: the living, each counted for one step size.
get_person_time(population, config, current_year) ==
    get_group_counts(population, IsAlive(population), config, "person_time", current_year,
                     One(population))

\* Person time of `state` that counts every living row, whatever its state.
StatePersonTimeOfAllLiving(population, config, state, current_year) ==
    get_group_counts(population, IsAlive(population), config, state \o "_person_time",
                     current_year, One(population))

\* get_state_person_time: the living that are in `state`.
get_state_person_time(population, config, state, current_year) ==
    LET base_filter == [i \in Index(population) |->
                           /\ population[i].alive = "alive"
                           /\ DiseaseColumn(population[i]) = state]
    IN  get_group_counts(population, base_filter, config, state \o "_person_time", current_year,
                         One(population))

\* A transition count that takes every row found in the transition's to_state,
\* whatever state it was in at the step's prepare.
TransitionCountOfArrived(population, config, transition, event_year) ==
    LET arrived == Restrict(population, {i \in Index(population) :
                       DiseaseColumn(population[i]) = transition.to_state})
    IN  get_group_counts(arrived, [i \in Index(arrived) |-> TRUE], config,
                         transition.name \o "_event_count", event_year, One(arrived))

\* get_transition_count: rows whose previous state is the transition's from_state
\* and whose state is its to_state, under the year of the event time.
get_transition_count(population, config, transition, event_year) ==
    LET event_this_step(row) ==
            PreviousColumn(row) = transition.from_state /\ DiseaseColumn(row) = transition.to_state
        transitioned_pop ==
            Restrict(population, {i \in Index(population) : event_this_step(population[i])})
        base_filter == [i \in Index(transitioned_pop) |-> TRUE]
    IN  get_group_counts(transitioned_pop, base_filter, config,
                         transition.name \o "_event_count", event_year, One(transitioned_pop))

\* counter.update(p) for each partial p of a handler's loop, in loop order.
RECURSIVE UpdateAll(_, _)
UpdateAll(counter, partials) ==
    IF partials = <<>> THEN counter
    ELSE UpdateAll(CounterUpdate(counter, Head(partials)), Tail(partials))

RECURSIVE RecordAll(_, _)
RecordAll(history, partials) ==
    IF partials = <<>> THEN history
    ELSE RecordAll(RecordUpdate(history, Head(partials)), Tail(partials))

\* MortalityObserver.on_time_step_prepare's partials, in loop order: one per
\* stratification group.
MortalityPartials(population, config, t) ==
    LET g == group(population)
    IN  [n \in DOMAIN g |->
            update_labels(get_person_time(g[n][2], config, YearOf(t)), g[n][1])]

\* DiseaseObserver.on_time_step_prepare's partials: per group, per state.
RECURSIVE Flatten(_)
Flatten(qq) == IF qq = <<>> THEN <<>> ELSE Head(qq) \o Flatten(Tail(qq))

StatePersonTimePartials(population, config, t) ==
    LET g == group(population)
    IN  Flatten([n \in DOMAIN g |->
            [j \in DOMAIN DIARRHEA_MODEL_STATES |->
                update_labels(get_state_person_time(g[n][2], config,
                                                    DIARRHEA_MODEL_STATES[j], YearOf(t)),
                              g[n][1])]])

\* DiseaseObserver.on_collect_metrics' partials: per group, per transition;
\* event.time is the clock plus the step size.
TransitionCountPartials(population, config, t) ==
    LET g == group(population)
    IN  Flatten([n \in DOMAIN g |->
            [j \in DOMAIN DIARRHEA_MODEL_TRANSITIONS |->
                update_labels(get_transition_count(g[n][2], config,
                                                   DIARRHEA_MODEL_TRANSITIONS[j], YearOf(t + 1)),
                              g[n][1])]])

\* AnemiaObserver.on_time_step_prepare's partials: per severity state, no
\* stratifier.
AnemiaPartials(population, config, t) ==
    [j \in DOMAIN ANEMIA_SEVERITY_GROUPS |->
        LET base_filter == [i \in Index(population) |->
                               /\ population[i].alive = "alive"
                               /\ population[i].anemia = ANEMIA_SEVERITY_GROUPS[j]]
        IN  get_group_counts(population, base_filter, config,
                             "anemia_" \o ANEMIA_SEVERITY_GROUPS[j] \o "_person_time",
                             YearOf(t), One(population))]

(***************************************************************************)
(* MortalityObserver.metrics and its measure getters.                      *)
(***************************************************************************)
\* The life-expectancy lookup table (by age, in years).
life_expectancy(row) == 90 - (row.age \div 10)
LifeExpectancy(population) == [i \in Index(population) |-> life_expectancy(population[i])]

CAUSES == <<DIARRHEA_WITH_CONDITION_STATE_NAME, "other_causes">>

\* get_time_iterable(config, sim_start, sim_end): every year from the start year
\* to the end year when by_year is on, else the single span 'all_years'.
TimeSpans(cfg, t) ==
    IF cfg.by_year THEN {[year |-> y, all |-> FALSE] : y \in YearOf(0)..YearOf(t)}
    ELSE {[year |-> 0, all |-> TRUE]}

\* get_deaths / get_years_of_life_lost for one stratification group: per span
\* and cause, the dead whose exit time lies in the span, counted or weighted by
\* life expectancy.
DeathMeasure(population, cfg, t, prefix, aggregate) ==
    LET cells == {<<sp, c>> : sp \in TimeSpans(cfg, t), c \in Range(CAUSES)}
        Part(cell) ==
            LET base_filter == [i \in Index(population) |->
                                   /\ population[i].alive = "dead"
                                   /\ population[i].cause_of_death = cell[2]
                                   /\ \/ cell[1].all
                                      \/ YearOf(population[i].exit_time) = cell[1].year]
            IN  get_group_counts(population, base_filter, cfg, prefix \o "_due_to_" \o cell[2],
                                 cell[1].year, aggregate)
    IN  PairsToMap(UNION {MapPairs(Part(cell)) : cell \in cells})

RECURSIVE MergeAll(_, _)
MergeAll(m, partials) ==
    IF partials = <<>> THEN m
    ELSE MergeAll(MetricsUpdate(m, Head(partials)), Tail(partials))

\* pop[pop.alive == 'alive'], whether tracked or not.
AllAlive(population) == {i \in Index(population) : population[i].alive = "alive"}

\* pop[(pop.alive == 'alive') & pop.tracked]
TheLiving(population) ==
    {i \in Index(population) : population[i].alive = "alive" /\ population[i].tracked}

\* pop[pop.alive == 'dead']
TheDead(population) == {i \in Index(population) : population[i].alive = "dead"}

\* MortalityObserver.metrics: deaths and years of life lost per stratum, the
\* three totals, then the person time held.
MortalityObserver_metrics(population, cfg, t, held, m) ==
    LET g == group(population)
        per_group ==
            Flatten([n \in DOMAIN g |->
                <<update_labels(DeathMeasure(g[n][2], cfg, t, "death", One(g[n][2])), g[n][1]),
                  update_labels(DeathMeasure(g[n][2], cfg, t, "ylls", LifeExpectancy(g[n][2])),
                                g[n][1])>>])
        the_living == TheLiving(population)
        the_dead == TheDead(population)
        totals == [k \in {"years_of_life_lost", "total_population_living", "total_population_dead"} |->
                      CASE k = "years_of_life_lost" ->
                               SumOver(the_dead, [i \in the_dead |-> life_expectancy(population[i])])
                        [] k = "total_population_living" -> Cardinality(the_living)
                        [] k = "total_population_dead" -> Cardinality(the_dead)]
    IN  MetricsUpdate(MetricsUpdate(MergeAll(m, per_group), totals), held)

\* DiseaseObserver.metrics: the counts, then the person time.
DiseaseObserver_metrics(held_counts, held_person_time, m) ==
    MetricsUpdate(MetricsUpdate(m, held_counts), held_person_time)

\* AnemiaObserver.metrics
AnemiaObserver_metrics(held, m) == MetricsUpdate(m, held)

(***************************************************************************)
(* The run: the host fires time_step__prepare (MortalityObserver,          *)
(* DiseaseObserver, AnemiaObserver), changes the population, fires         *)
(* collect_metrics (DiseaseObserver) and steps the clock forward; between  *)
(* steps and at the end it may request the metrics.                        *)
(***************************************************************************)
NewRow(sex, age, fa, raw, started, state, anemia) ==
    [alive |-> "alive", tracked |-> TRUE, sex |-> sex, age |-> age,
     fa_fortification_coverage |-> fa,
     vitamin_a_raw |-> raw, vitamin_a_coverage_start |-> started,
     diarrheal_diseases |-> state,
     previous_diarrheal_diseases |-> "",     \* DiseaseObserver.on_initialize_simulants
     anemia |-> anemia, cause_of_death |-> "not_dead", exit_time |-> -1]

\* The initial populations of a run: a mixed cohort (both sexes, both age
\* groups, every folic-acid and vitamin-A group, both disease states) or a
\* uniform one (every simulant in the same stratum).
InitialRows ==
    <<NewRow("Male", 3, "covered", "cat2", FALSE, DIARRHEA_SUSCEPTIBLE_STATE_NAME, "none"),
      NewRow("Female", 8, "uncovered", "cat1", TRUE, DIARRHEA_WITH_CONDITION_STATE_NAME, "mild"),
      NewRow("Female", 20, "covered", "cat1", FALSE, DIARRHEA_SUSCEPTIBLE_STATE_NAME, "none")>>
InitialPopulations ==
    {[i \in Sims |-> InitialRows[((i - 1) % Len(InitialRows)) + 1]],
     [i \in Sims |-> InitialRows[1]]}

\* The rows a population handed to the stratifier is drawn from.
StratifierRows ==
    {NewRow("Male", age, fa, raw, started, DIARRHEA_SUSCEPTIBLE_STATE_NAME, "none") :
        age \in {3, 5, 6, 20}, fa \in Range(FOLIC_ACID_FORTIFICATION_GROUPS),
        raw \in {"cat1", "cat2"}, started \in BOOLEAN}

Populations(rows) == UNION {[S -> rows] : S \in SUBSET Sims}

\* groups holds what a call of ResultsStratifier.group computed: its two
\* category series and the pairs it yielded.
NotCalled == [called |-> FALSE, folic_acid_covered |-> <<>>, vitamin_a_covered |-> <<>>,
              yielded |-> <<>>]

EmptyHistory == [mortality |-> EmptyMap, person_time |-> EmptyMap,
                 counts |-> EmptyMap, anemia |-> EmptyMap]

\* The observers after setup: empty Counters.
SetupDone ==
    /\ now = 0
    /\ phase = "prepare_mortality"
    /\ mortality_person_time = EmptyMap
    /\ person_time = EmptyMap
    /\ counts = EmptyMap
    /\ anemia_person_time = EmptyMap
    /\ updates = EmptyHistory
    /\ metrics = EmptyMap

ReshaperIdle ==
    /\ family = "none"
    /\ process = <<>>
    /\ decoded = NotDecoded

\* happened counts the disease transitions the host has made: one entry per
\* (state left, state entered, year in which the step started).
NothingHappened ==
    [e \in Range(DIARRHEA_MODEL_STATES) \X Range(DIARRHEA_MODEL_STATES) \X Years |-> 0]

\* The reshaper's table functions have not been called.
NoTable == [columns |-> <<>>, rows |-> <<>>]
TablesIdle ==
    /\ data = NoTable
    /\ output = NoTable

\* globals.py has been imported, RESULT_COLUMNS has not been called.
ColumnsIdle ==
    /\ calls = <<>>
    /\ spent = {}

\* build_all_artifacts has not been called.
BuildIdle ==
    /\ verbose = FALSE
    /\ pc = "idle"
    /\ cursor = 0
    /\ jobs = <<>>
    /\ cluster = <<>>
    /\ polled = FALSE

\* The tools a specification leaves out are not in use.
ToolsIdle ==
    /\ TablesIdle
    /\ pop_data = {}
    /\ ColumnsIdle
    /\ BuildIdle

\* The observers a specification leaves out have not been set up.
ObserversIdle ==
    /\ results = EmptyMap
    /\ collected = EmptyMap
    /\ lbwsg_results = EmptyMap
    /\ years_lived_with_disability = EmptyMap
    /\ applied = {}
    /\ raised = "none"
    /\ returned = <<>>

Init ==
    /\ pop \in InitialPopulations
    /\ configuration \in {AllOn, AllOff}
    /\ SetupDone
    /\ groups = NotCalled
    /\ ReshaperIdle
    /\ ObserversIdle
    /\ happened = NothingHappened
    /\ ToolsIdle

\* MortalityObserver.on_time_step_prepare
MortalityPrepare ==
    /\ phase = "prepare_mortality"
    /\ now < MaxSteps
    /\ LET partials == MortalityPartials(pop, configuration, now)
       IN  /\ mortality_person_time' = UpdateAll(mortality_person_time, partials)
           /\ updates' = [updates EXCEPT !.mortality = RecordAll(@, partials)]
    /\ phase' = "prepare_disease"
    /\ metrics' = EmptyMap      \* the mapping of an earlier request is gone
    /\ UNCHANGED <<pop, now, person_time, counts, anemia_person_time, configuration,
                   groups, family, process, decoded>>
    /\ UNCHANGED <<obsVars, happened>>
    /\ UNCHANGED toolVars

\* DiseaseObserver.on_time_step_prepare: the person time of every state, then
\* the state is copied to the previous-state column.
DiseasePrepare ==
    /\ phase = "prepare_disease"
    /\ LET partials == StatePersonTimePartials(pop, configuration, now)
       IN  /\ person_time' = UpdateAll(person_time, partials)
           /\ updates' = [updates EXCEPT !.person_time = RecordAll(@, partials)]
    /\ pop' = [i \in Index(pop) |->
                  [pop[i] EXCEPT !.previous_diarrheal_diseases = pop[i].diarrheal_diseases]]
    /\ phase' = "prepare_anemia"
    /\ UNCHANGED <<now, mortality_person_time, counts, anemia_person_time, metrics,
                   configuration, groups, family, process, decoded>>
    /\ UNCHANGED <<obsVars, happened>>
    /\ UNCHANGED toolVars

\* AnemiaObserver.on_time_step_prepare
AnemiaPrepare ==
    /\ phase = "prepare_anemia"
    /\ LET partials == AnemiaPartials(pop, configuration, now)
       IN  /\ anemia_person_time' = UpdateAll(anemia_person_time, partials)
           /\ updates' = [updates EXCEPT !.anemia = RecordAll(@, partials)]
    /\ phase' = "step"
    /\ UNCHANGED <<pop, now, mortality_person_time, person_time, counts, metrics,
                   configuration, groups, family, process, decoded>>
    /\ UNCHANGED <<obsVars, happened>>
    /\ UNCHANGED toolVars

OtherState(state) ==
    IF state = DIARRHEA_SUSCEPTIBLE_STATE_NAME THEN DIARRHEA_WITH_CONDITION_STATE_NAME
    ELSE DIARRHEA_SUSCEPTIBLE_STATE_NAME

\* The host's step: every living simulant ages by the step size and stays in
\* its disease state, moves to the other one, or dies (of the disease if it
\* has it, of other causes otherwise).
HostStep ==
    /\ phase = "step"
    /\ \E change \in [Index(pop) -> {"stay", "transition", "die"}] :
          /\ \A i \in Index(pop) : pop[i].alive = "dead" => change[i] = "stay"
          /\ pop' = [i \in Index(pop) |->
                CASE pop[i].alive = "dead" -> pop[i]
                  [] pop[i].alive = "alive" /\ change[i] = "stay" ->
                        [pop[i] EXCEPT !.age = @ + (10 \div StepsPerYear)]
                  [] pop[i].alive = "alive" /\ change[i] = "transition" ->
                        [pop[i] EXCEPT !.age = @ + (10 \div StepsPerYear),
                                       !.diarrheal_diseases = OtherState(@)]
                  [] pop[i].alive = "alive" /\ change[i] = "die" ->
                        [pop[i] EXCEPT !.alive = "dead", !.exit_time = now + 1,
                                       !.cause_of_death =
                                           IF pop[i].diarrheal_diseases = DIARRHEA_WITH_CONDITION_STATE_NAME
                                           THEN DIARRHEA_WITH_CONDITION_STATE_NAME
                                           ELSE "other_causes"]]
          /\ happened' = [e \in DOMAIN happened |->
                happened[e] + Cardinality({i \in Index(pop) :
                    /\ pop[i].alive = "alive" /\ change[i] = "transition"
                    /\ e = <<pop[i].diarrheal_diseases, OtherState(pop[i].diarrheal_diseases),
                             YearOf(now)>>})]
    /\ phase' = "collect"
    /\ UNCHANGED <<now, mortality_person_time, person_time, counts, anemia_person_time,
                   updates, metrics, configuration, groups, family, process, decoded>>
    /\ UNCHANGED obsVars
    /\ UNCHANGED toolVars

\* DiseaseObserver.on_collect_metrics
CollectMetrics ==
    /\ phase = "collect"
    /\ LET partials == TransitionCountPartials(pop, configuration, now)
       IN  /\ counts' = UpdateAll(counts, partials)
           /\ updates' = [updates EXCEPT !.counts = RecordAll(@, partials)]
    /\ phase' = "forward"
    /\ UNCHANGED <<pop, now, mortality_person_time, person_time, anemia_person_time,
                   metrics, configuration, groups, family, process, decoded>>
    /\ UNCHANGED <<obsVars, happened>>
    /\ UNCHANGED toolVars

\* The host's clock steps forward.
StepForward ==
    /\ phase = "forward"
    /\ now' = now + 1
    /\ phase' = IF now + 1 < MaxSteps THEN "prepare_mortality" ELSE "finished"
    /\ UNCHANGED <<pop, mortality_person_time, person_time, counts, anemia_person_time,
                   updates, metrics, configuration, groups, family, process, decoded>>
    /\ UNCHANGED <<obsVars, happened>>
    /\ UNCHANGED toolVars

\* A metrics request that also clears the observers' Counters.
RequestMetricsAndClear ==
    /\ phase \in {"prepare_mortality", "finished"}
    /\ metrics' =
          AnemiaObserver_metrics(anemia_person_time,
              DiseaseObserver_metrics(counts, person_time,
                  MortalityObserver_metrics(pop, configuration, now,
                                            mortality_person_time, EmptyMap)))
    /\ mortality_person_time' = EmptyMap
    /\ person_time' = EmptyMap
    /\ counts' = EmptyMap
    /\ anemia_person_time' = EmptyMap
    /\ UNCHANGED <<pop, now, phase, updates, configuration, groups, family, process, decoded>>
    /\ UNCHANGED <<obsVars, happened>>
    /\ UNCHANGED toolVars

\* A metrics request: the host's mapping passes through every observer's
\* metrics modifier.
RequestMetrics ==
    /\ phase \in {"prepare_mortality", "finished"}
    /\ metrics' =
          AnemiaObserver_metrics(anemia_person_time,
              DiseaseObserver_metrics(counts, person_time,
                  MortalityObserver_metrics(pop, configuration, now,
                                            mortality_person_time, EmptyMap)))
    /\ UNCHANGED <<pop, now, phase, mortality_person_time, person_time, counts,
                   anemia_person_time, updates, configuration, groups, family, process, decoded>>
    /\ UNCHANGED <<obsVars, happened>>
    /\ UNCHANGED toolVars

Next ==
    \/ MortalityPrepare
    \/ DiseasePrepare
    \/ AnemiaPrepare
    \/ HostStep
    \/ CollectMetrics
    \/ StepForward
    \/ RequestMetrics

Spec == Init /\ [][Next]_vars

(***************************************************************************)
(* The stratifier on its own: group applied to any population.             *)
(***************************************************************************)
StratInit ==
    /\ pop \in Populations(StratifierRows)
    /\ configuration = AllOn
    /\ SetupDone
    /\ groups = NotCalled
    /\ ReshaperIdle
    /\ ObserversIdle
    /\ happened = NothingHappened
    /\ ToolsIdle

StratifierGroup ==
    /\ ~groups.called
    /\ groups' = [called |-> TRUE,
                  folic_acid_covered |-> folic_acid_covered(pop),
                  vitamin_a_covered |-> vitamin_a_covered(pop),
                  yielded |-> group(pop)]
    /\ UNCHANGED <<simVars, codecVars>>
    /\ UNCHANGED <<obsVars, happened>>
    /\ UNCHANGED toolVars

StratNext == StratifierGroup

StratSpec == StratInit /\ [][StratNext]_vars

(***************************************************************************)
(* The reshaper on its own: a decoder applied to a 'process' column.       *)
(***************************************************************************)
CodecInit ==
    /\ pop = [i \in {} |-> 0]
    /\ configuration = AllOn
    /\ SetupDone
    /\ groups = NotCalled
    /\ family \in Families
    /\ process \in Batches(family)
    /\ decoded = NotDecoded
    /\ ObserversIdle
    /\ happened = NothingHappened
    /\ ToolsIdle

\* get_measure_data's split_processing_column(data, with_cause)
SplitProcessingColumn ==
    /\ family \in {"measure", "cause_measure"}
    /\ decoded = NotDecoded
    /\ decoded' = split_processing_column(process, family = "cause_measure")
    /\ UNCHANGED <<simVars, groups, family, process>>
    /\ UNCHANGED <<obsVars, happened>>
    /\ UNCHANGED toolVars

SplitHbProcessingColumn ==
    /\ family = "hemoglobin"
    /\ decoded = NotDecoded
    /\ decoded' = split_hb_processing_column(process)
    /\ UNCHANGED <<simVars, groups, family, process>>
    /\ UNCHANGED <<obsVars, happened>>
    /\ UNCHANGED toolVars

SplitAnemiaProcessingColumn ==
    /\ family = "anemia"
    /\ decoded = NotDecoded
    /\ decoded' = split_anemia_processing_column(process)
    /\ UNCHANGED <<simVars, groups, family, process>>
    /\ UNCHANGED <<obsVars, happened>>
    /\ UNCHANGED toolVars

SplitBirthweightProcessingColumn ==
    /\ family = "birth_weight"
    /\ decoded = NotDecoded
    /\ decoded' = split_birthweight_processing_column(process)
    /\ UNCHANGED <<simVars, groups, family, process>>
    /\ UNCHANGED <<obsVars, happened>>
    /\ UNCHANGED toolVars

GetBirths ==
    /\ family = "births"
    /\ decoded = NotDecoded
    /\ \E with_ntds \in BOOLEAN : decoded' = get_births(process, with_ntds)
    /\ UNCHANGED <<simVars, groups, family, process>>
    /\ UNCHANGED <<obsVars, happened>>
    /\ UNCHANGED toolVars

CodecNext ==
    \/ SplitProcessingColumn
    \/ SplitHbProcessingColumn
    \/ SplitAnemiaProcessingColumn
    \/ SplitBirthweightProcessingColumn
    \/ GetBirths

CodecSpec == CodecInit /\ [][CodecNext]_vars

(***************************************************************************)
(* Properties of the reshaper's decoders (CodecSpec).                      *)
(***************************************************************************)
Decoded == decoded.status # "none"
AllEmitted == \A i \in DOMAIN process : process[i] \in Emitted(family)

\* Row i of the returned frame holds, in every column of cols, the label that
\* was encoded into process[i].
Recovers(i, cols) ==
    \A r \in Labels(family) :
        process[i] = Encode(family, r) =>
            \A c \in cols : Field(decoded.rows[i], c) = r[c]

\* C1: for every key the stratified observers emit (output template, then the
\* stratifier's suffix), split_processing_column returns a frame whose measure,
\* year, sex, age_group, folic-acid group and vitamin-A group are the labels
\* that were encoded.
C1_SplitProcessingColumnRoundTrip ==
    (family \in {"measure", "cause_measure"} /\ Decoded /\ AllEmitted) =>
        /\ decoded.status = "ok"
        /\ \A i \in DOMAIN process :
              Recovers(i, {"measure", "year", "sex", "age_group",
                           "folic_acid_fortification_group",
                           "vitamin_a_fortification_group"})

\* C2: every key HemoglobinLevelObserver.on_collect_metrics builds is a key of
\* get_results_template, character for character, and
\* split_hb_processing_column recovers the encoded measure, sex, age, status
\* and responsive labels from it.
C2_HemoglobinKeyRoundTrip ==
    (family = "hemoglobin" /\ Decoded /\ AllEmitted) =>
        /\ decoded.status = "ok"
        /\ \A i \in DOMAIN process :
              /\ process[i] \in DOMAIN get_results_template
              /\ \A r \in HbLabels :
                    process[i] = EncodeHb(r) =>
                        process[i] = HbTemplateKey(r.sex, r.age, r.status, r.responsive)
              /\ Recovers(i, {"measure", "sex", "age", "status", "responsive"})

\* A two-row column of hemoglobin keys has been decoded into its labels.
C2_Witness ==
    /\ family = "hemoglobin"
    /\ decoded.status = "ok"
    /\ Len(process) = 2
    /\ AllEmitted
    /\ process[1] = HbCollectKey("female", "1.0", "uncovered", "non-responsive")
    /\ decoded.rows[1].responsive = "non-responsive"

\* C3: the reshaper's get_births decodes every birth key the birth observer
\* emits without error, recovering the encoded year, sex and folic-acid group.
C3_GetBirthsRoundTrip ==
    (family = "births" /\ Decoded /\ AllEmitted) =>
        /\ decoded.status = "ok"
        /\ \A i \in DOMAIN process :
              Recovers(i, {"year", "sex", "folic_acid_fortification_group"})

\* C4: a decoder given a column with a name that is not of its grammar (a
\* delimiter missing, or occurring once more than expected) ends in an error:
\* it never returns a frame for such a column.
C4_MalformedNameRaises ==
    decoded.status = "ok" => AllEmitted

(***************************************************************************)
(* Properties of ResultsStratifier.group (StratSpec).                      *)
(***************************************************************************)
HighRaw(row) == row.vitamin_a_raw = "cat2"

\* C5: the subgroups group yields for a population are pairwise disjoint, the
\* union of their indices is the population's index, and each holds the
\* population's own rows.
C5_GroupPartition ==
    groups.called =>
        LET g == groups.yielded
        IN  /\ \A m, n \in DOMAIN g : m # n => Index(g[m][2]) \cap Index(g[n][2]) = {}
            /\ UNION {Index(g[n][2]) : n \in DOMAIN g} = Index(pop)
            /\ \A n \in DOMAIN g : \A i \in Index(g[n][2]) : g[n][2][i] = pop[i]

\* Two simulants have been placed in two different subgroups.
C5_Witness ==
    /\ groups.called
    /\ Index(pop) = {1, 2}
    /\ \E m, n \in DOMAIN groups.yielded :
          m # n /\ Index(groups.yielded[m][2]) = {1} /\ Index(groups.yielded[n][2]) = {2}

\* C6: every call of group, the empty population included, yields exactly one
\* pair for each label of FOLIC_ACID_FORTIFICATION_GROUPS x
\* VITAMIN_A_FORTIFICATION_GROUPS, a label without members too.
C6_GroupYieldsEveryLabel ==
    groups.called =>
        /\ Len(groups.yielded) =
              Len(FOLIC_ACID_FORTIFICATION_GROUPS) * Len(VITAMIN_A_FORTIFICATION_GROUPS)
        /\ \A f \in Range(FOLIC_ACID_FORTIFICATION_GROUPS),
              v \in Range(VITAMIN_A_FORTIFICATION_GROUPS) :
              Cardinality({n \in DOMAIN groups.yielded : groups.yielded[n][1] = <<f, v>>}) = 1

\* group has been called on the empty population and has yielded subgroups,
\* all of them empty.
C6_Witness ==
    /\ groups.called
    /\ Index(pop) = {}
    /\ groups.yielded # <<>>
    /\ \A n \in DOMAIN groups.yielded : Index(groups.yielded[n][2]) = {}

\* C7, as stated: effectively_covered if the raw exposure is the high category
\* and age > 0.5; covered if (raw high and coverage started) or (raw high and
\* age <= 0.5); uncovered if raw low and coverage not started.
C7_RuleAsStated ==
    groups.called =>
        \A i \in Index(pop) :
            LET class == groups.vitamin_a_covered[i]
                started == pop[i].vitamin_a_coverage_start
            IN  /\ (HighRaw(pop[i]) /\ pop[i].age > 5) => class = "effectively_covered"
                /\ ((HighRaw(pop[i]) /\ started) \/ (HighRaw(pop[i]) /\ pop[i].age <= 5))
                      => class = "covered"
                /\ (~HighRaw(pop[i]) /\ ~started) => class = "uncovered"

\* C7, amended: every individual is classified, and it is effectively_covered
\* exactly if the raw exposure is high and age > 0.5; covered exactly if (raw
\* LOW and coverage started) or (raw high and age <= 0.5); uncovered exactly if
\* raw low and coverage not started.
C7_VitaminARule ==
    groups.called =>
        /\ DOMAIN groups.vitamin_a_covered = Index(pop)
        /\ \A i \in Index(pop) :
              LET class == groups.vitamin_a_covered[i]
                  started == pop[i].vitamin_a_coverage_start
              IN  /\ class \in {"effectively_covered", "covered", "uncovered"}
                  /\ class = "effectively_covered" <=> (HighRaw(pop[i]) /\ pop[i].age > 5)
                  /\ class = "covered"
                        <=> ((~HighRaw(pop[i]) /\ started) \/ (HighRaw(pop[i]) /\ pop[i].age <= 5))
                  /\ class = "uncovered" <=> (~HighRaw(pop[i]) /\ ~started)

\* A simulant with low raw exposure whose coverage has started is classified
\* 'covered', beside one with high raw exposure, started coverage and age above
\* 0.5 classified 'effectively_covered'.
C7_Witness ==
    /\ groups.called
    /\ \E i \in Index(pop) :
          /\ ~HighRaw(pop[i]) /\ pop[i].vitamin_a_coverage_start
          /\ groups.vitamin_a_covered[i] = "covered"
    /\ \E i \in Index(pop) :
          /\ HighRaw(pop[i]) /\ pop[i].vitamin_a_coverage_start /\ pop[i].age > 5
          /\ groups.vitamin_a_covered[i] = "effectively_covered"

\* C8: with the raw exposure in the high category the class depends on age
\* alone: age <= 0.5 (0.5 itself included) gives covered, age > 0.5 gives
\* effectively_covered, whether or not a coverage start is recorded.
C8_HighRawByAgeOnly ==
    groups.called =>
        \A i \in Index(pop) :
            HighRaw(pop[i]) =>
                groups.vitamin_a_covered[i] =
                    IF pop[i].age <= 5 THEN "covered" ELSE "effectively_covered"

\* A simulant of age exactly 0.5 with high raw exposure and no coverage start is
\* 'covered', beside one of age 0.6 with a coverage start that is
\* 'effectively_covered'.
C8_Witness ==
    /\ groups.called
    /\ \E i \in Index(pop) :
          /\ HighRaw(pop[i]) /\ ~pop[i].vitamin_a_coverage_start /\ pop[i].age = 5
          /\ groups.vitamin_a_covered[i] = "covered"
    /\ \E i \in Index(pop) :
          /\ HighRaw(pop[i]) /\ pop[i].vitamin_a_coverage_start /\ pop[i].age = 6
          /\ groups.vitamin_a_covered[i] = "effectively_covered"

(***************************************************************************)
(* Properties of the observers' accumulators (Spec).                       *)
(***************************************************************************)
KeywiseSum(history) == [k \in DOMAIN history |-> SeqSum(history[k])]

\* The accumulator equals one update of an empty Counter with the key-wise sum
\* of the partials recorded for it.
Additive(counter, history) == counter = CounterUpdate(EmptyMap, KeywiseSum(history))

\* C9: after any sequence of per-step updates, every accumulator holds at each
\* key the sum of what the partials contributed at that key: the mapping one
\* update with the key-wise sum of all partials gives.
C9_AccumulatorAdditivity ==
    /\ Additive(mortality_person_time, updates.mortality)
    /\ Additive(person_time, updates.person_time)
    /\ Additive(counts, updates.counts)
    /\ Additive(anemia_person_time, updates.anemia)

\* A person-time key has had two non-zero contributions and a transition count
\* key has had a non-zero one.
C9_Witness ==
    /\ \E k \in DOMAIN updates.person_time :
          /\ Len(updates.person_time[k]) >= 2
          /\ updates.person_time[k][1] > 0
          /\ updates.person_time[k][2] > 0
          /\ person_time[k] = updates.person_time[k][1] + updates.person_time[k][2]
    /\ \E k \in DOMAIN counts : counts[k] > 0

NonNegative(counter) == \A k \in DOMAIN counter : counter[k] >= 0
Kept(before, after) == \A k \in DOMAIN before : k \in DOMAIN after /\ after[k] >= before[k]

\* C10: over time_step__prepare, collect_metrics and metrics-request events, no
\* key leaves an accumulator, no value at a key decreases, and every value is
\* non-negative.
C10_AccumulatorsMonotone ==
    /\ [](/\ NonNegative(mortality_person_time)
          /\ NonNegative(person_time)
          /\ NonNegative(counts)
          /\ NonNegative(anemia_person_time))
    /\ [][/\ Kept(mortality_person_time, mortality_person_time')
          /\ Kept(person_time, person_time')
          /\ Kept(counts, counts')
          /\ Kept(anemia_person_time, anemia_person_time')]_vars

\* The run has finished, metrics have been requested, and the accumulators
\* hold positive values.
C10_Witness ==
    /\ phase = "finished"
    /\ metrics # EmptyMap
    /\ \E k \in DOMAIN mortality_person_time : mortality_person_time[k] > 1
    /\ \E k \in DOMAIN counts : counts[k] > 0
    /\ \E k \in DOMAIN anemia_person_time : anemia_person_time[k] > 0

(***************************************************************************)
(* Properties of the DiseaseObserver over a run (Spec).                    *)
(***************************************************************************)
Total(counter) == SumOver(DOMAIN counter, counter)
NoDeaths == \A i \in Index(pop) : pop[i].alive = "alive"
Transitions == SumOver(DOMAIN happened, happened)

\* The number of time_step__prepare events DiseaseObserver has handled.
PreparesHandled ==
    now + (IF phase \in {"prepare_anemia", "step", "collect", "forward"} THEN 1 ELSE 0)

\* C12: while nobody has died (a closed cohort whose members are always in one
\* of the disease's states), the state person-time keys of DiseaseObserver sum
\* to cohort size * steps handled * step size, whatever transitions occurred.
C12_StatePersonTimeConserved ==
    NoDeaths => Total(person_time) = NSims * PreparesHandled

\* A finished run without deaths in which simulants changed state.
C12_Witness ==
    /\ phase = "finished"
    /\ NoDeaths
    /\ Transitions >= 2
    /\ Total(person_time) = NSims * MaxSteps

StartsWith(k, prefix) == Len(k) >= Len(prefix) /\ SubSeq(k, 1, Len(prefix)) = prefix
KeysOf(counter, prefix) == {k \in DOMAIN counter : StartsWith(k, prefix)}

\* The (simulant, step) pairs in which the simulant was in from_state at the
\* step's prepare and in to_state at its collect_metrics.
Happened(transition) ==
    SumOver({e \in DOMAIN happened :
                e[1] = transition.from_state /\ e[2] = transition.to_state}, happened)

StepsStartedIn(y) == {t \in 0..(PreparesHandled - 1) : YearOf(t) = y}

PersonTimeUnderStartYear ==
    (configuration.by_year /\ NoDeaths) =>
        \A y \in Years :
            LET under_y == UNION {KeysOf(person_time,
                                         DIARRHEA_MODEL_STATES[j] \o "_person_time_in_" \o ToString(y)) :
                                  j \in DOMAIN DIARRHEA_MODEL_STATES}
            IN  SumOver(under_y, person_time) = NSims * Cardinality(StepsStartedIn(y))

CountsUnderStartYear ==
    (configuration.by_year /\ phase # "collect") =>
        \A j \in DOMAIN DIARRHEA_MODEL_TRANSITIONS, y \in Years :
            LET transition == DIARRHEA_MODEL_TRANSITIONS[j]
                under_y == KeysOf(counts, transition.name \o "_event_count_in_" \o ToString(y))
            IN  SumOver(under_y, counts)
                    = happened[<<transition.from_state, transition.to_state, y>>]

\* C19: with by_year on, the person time of a step and the transitions of the
\* step are both recorded under the year in which the step started, also when
\* the step's end lies in the next year.
C19_StepStartYear == PersonTimeUnderStartYear /\ CountsUnderStartYear

(***************************************************************************)
(* LiveBirthWithNTDObserver: births per time span, counted at the metrics  *)
(* request from the entrance times.  Times are in steps since 2020-01-01.  *)
(***************************************************************************)
NTD_MODEL_NAME == "neural_tube_defects"
NTD_SUSCEPTIBLE_STATE_NAME == "susceptible_to_neural_tube_defects"

\* The run of the births observer: two calendar years from 2020-01-01.
SimStart == 0
SimEnd == 2 * StepsPerYear

FirstStepOf(year) == (year - 2020) * StepsPerYear

\* get_time_iterable(config, sim_start, sim_end) with its spans' bounds: one
\* span per year from the start year to the end year, or 'all_years' from 1900
\* to 2100.
TimeIterable(config, sim_start, sim_end) ==
    IF config.by_year
    THEN {[year |-> y, t_start |-> FirstStepOf(y), t_end |-> FirstStepOf(y + 1)] :
            y \in YearOf(sim_start)..YearOf(sim_end)}
    ELSE {[year |-> 0, t_start |-> FirstStepOf(1900), t_end |-> FirstStepOf(2100)]}

Max(a, b) == IF a >= b THEN a ELSE b
Min(a, b) == IF a <= b THEN a ELSE b

\* Births counted over the whole of each span, without clipping to the run.
BirthsInUnclippedSpans(population, config, sim_start, sim_end) ==
    LET Part(span) ==
            LET born == Restrict(population, {i \in Index(population) :
                            /\ span.t_start <= population[i].entrance_time
                            /\ population[i].entrance_time < span.t_end})
            IN  MapPairs(get_group_counts(born, [i \in Index(born) |-> TRUE], config,
                                          "live_births", span.year, One(born)))
                \cup MapPairs(get_group_counts(born,
                                  [i \in Index(born) |-> born[i].neural_tube_defects = NTD_MODEL_NAME],
                                  config, "born_with_ntds", span.year, One(born)))
    IN  PairsToMap(UNION {Part(span) : span \in TimeIterable(config, sim_start, sim_end)})

\* Births where the rows with the defect are taken from the whole population
\* instead of from the rows born in the span.
BirthsWithNTDOfAllRows(population, config, sim_start, sim_end) ==
    LET Part(span) ==
            LET start == Max(sim_start, span.t_start)
                end == Min(sim_end, span.t_end)
                born_in_span == Restrict(population, {i \in Index(population) :
                                    /\ start <= population[i].entrance_time
                                    /\ population[i].entrance_time < end})
            IN  MapPairs(get_group_counts(born_in_span, [i \in Index(born_in_span) |-> TRUE],
                                          config, "live_births", span.year, One(born_in_span)))
                \cup MapPairs(get_group_counts(population,
                                  [i \in Index(population) |->
                                      population[i].neural_tube_defects = NTD_MODEL_NAME],
                                  config, "born_with_ntds", span.year, One(population)))
    IN  PairsToMap(UNION {Part(span) : span \in TimeIterable(config, sim_start, sim_end)})

\* get_births of observers.py: per span, the rows whose entrance time lies in
\* the span clipped to [sim_start, sim_end), counted per sex; and those of
\* them whose NTD column holds the NTD state.
observers_get_births(population, config, sim_start, sim_end) ==
    LET Part(span) ==
            LET start == Max(sim_start, span.t_start)
                end == Min(sim_end, span.t_end)
                born_in_span == Restrict(population, {i \in Index(population) :
                                    /\ start <= population[i].entrance_time
                                    /\ population[i].entrance_time < end})
            IN  MapPairs(get_group_counts(born_in_span, [i \in Index(born_in_span) |-> TRUE],
                                          config, "live_births", span.year, One(born_in_span)))
                \cup MapPairs(get_group_counts(born_in_span,
                                  [i \in Index(born_in_span) |->
                                      born_in_span[i].neural_tube_defects = NTD_MODEL_NAME],
                                  config, "born_with_ntds", span.year, One(born_in_span)))
    IN  PairsToMap(UNION {Part(span) : span \in TimeIterable(config, sim_start, sim_end)})

\* LiveBirthWithNTDObserver.metrics: per stratification group, the births of
\* the group under the group's labels, written into the metrics mapping.
LiveBirthWithNTDObserver_metrics(population, config, m) ==
    LET g == group(population)
    IN  MergeAll(m, [n \in DOMAIN g |->
                        update_labels(observers_get_births(g[n][2], config, SimStart, SimEnd),
                                      g[n][1])])

\* The rows of the births observer's population view: entrance just before the
\* run (the initial population), at its first step, on either side of the
\* year boundary, at its last step and at its end.
EntranceTimes == {SimStart - 1, SimStart, StepsPerYear - 1, StepsPerYear, SimEnd - 1, SimEnd}
BirthRows ==
    {NewRow(c[1], 0, c[2], "cat2", FALSE, DIARRHEA_SUSCEPTIBLE_STATE_NAME, "none")
        @@ [entrance_time |-> e, neural_tube_defects |-> c[3]] :
        e \in EntranceTimes,
        c \in {<<"Male", "covered", NTD_MODEL_NAME>>,
               <<"Female", "uncovered", NTD_SUSCEPTIBLE_STATE_NAME>>}}

\* LiveBirthWithNTDObserver.setup: by_year and by_sex from the configuration,
\* by_age forced off.
BirthInit ==
    /\ pop \in [Sims -> BirthRows]
    /\ configuration \in {c \in Config : ~c.by_age}
    /\ SetupDone
    /\ groups = NotCalled
    /\ ReshaperIdle
    /\ ObserversIdle
    /\ happened = NothingHappened
    /\ ToolsIdle

LiveBirthMetrics ==
    /\ "births" \notin applied
    /\ metrics' = LiveBirthWithNTDObserver_metrics(pop, [configuration EXCEPT !.by_age = FALSE],
                                                   metrics)
    /\ applied' = applied \cup {"births"}
    /\ UNCHANGED <<pop, now, phase, mortality_person_time, person_time, counts,
                   anemia_person_time, updates, configuration, groups, codecVars,
                   results, collected, lbwsg_results, years_lived_with_disability,
                   happened, raised, returned>>
    /\ UNCHANGED toolVars

BirthNext == LiveBirthMetrics

BirthSpec == BirthInit /\ [][BirthNext]_vars

\* The simulants that entered during the run, and those of them that entered
\* in year y.
Entrants == {i \in Index(pop) : SimStart <= pop[i].entrance_time /\ pop[i].entrance_time < SimEnd}
EntrantsOf(y) == {i \in Entrants : YearOf(pop[i].entrance_time) = y}
WithNTD(S) == {i \in S : pop[i].neural_tube_defects = NTD_MODEL_NAME}
Sum(m, prefix) == SumOver(KeysOf(m, prefix), m)

\* C13: the births written at a metrics request count every simulant whose
\* entrance time lies in [sim_start, sim_end) once, under its entrance year
\* when by_year is on, and nobody else; a span without entrants has its keys,
\* with count 0.  The same holds for the births with the defect.
C13_BirthsCountedInEntranceYear ==
    "births" \in applied =>
        /\ Sum(metrics, "live_births") = Cardinality(Entrants)
        /\ Sum(metrics, "born_with_ntds") = Cardinality(WithNTD(Entrants))
        /\ configuration.by_year =>
              \A y \in YearOf(SimStart)..YearOf(SimEnd) :
                  /\ KeysOf(metrics, "live_births_in_" \o ToString(y)) # {}
                  /\ KeysOf(metrics, "born_with_ntds_in_" \o ToString(y)) # {}
                  /\ Sum(metrics, "live_births_in_" \o ToString(y)) = Cardinality(EntrantsOf(y))
                  /\ Sum(metrics, "born_with_ntds_in_" \o ToString(y))
                        = Cardinality(WithNTD(EntrantsOf(y)))

\* Births have been counted per year for a population with one simulant that
\* entered before the run, or at its end, and one that entered in the run's
\* second year.
C13_Witness ==
    /\ "births" \in applied
    /\ configuration.by_year
    /\ \E i \in Index(pop) : i \notin Entrants
    /\ EntrantsOf(2021) # {}
    /\ Sum(metrics, "live_births_in_2021") = Cardinality(EntrantsOf(2021))
    /\ Sum(metrics, "live_births_in_2022") = 0

(***************************************************************************)
(* Statistics.  A mean or a variance is an exact fraction num/den in       *)
(* lowest terms; a standard deviation is kept as the variance it is the    *)
(* square root of; NaN is numpy's and pandas' not-a-number.                *)
(***************************************************************************)
RECURSIVE GCD(_, _)
GCD(a, b) == IF b = 0 THEN a ELSE GCD(b, a % b)

Ratio(n, d) ==
    LET g == GCD(IF n < 0 THEN -n ELSE n, d)
    IN  [num |-> n \div g, den |-> d \div g]

Squares(q) == [j \in DOMAIN q |-> q[j] * q[j]]

\* numpy.mean / Series.mean of a non-empty list.
Mean(q) == Ratio(SeqSum(q), Len(q))

\* numpy.var: the population variance (ddof = 0) of a non-empty list.
Var(q) == Ratio(Len(q) * SeqSum(Squares(q)) - SeqSum(q) * SeqSum(q), Len(q) * Len(q))

\* Series.std: the square root of the sample variance (ddof = 1), NaN for a
\* list of one value.
Std(q) ==
    IF Len(q) < 2 THEN NaN
    ELSE [sqrt_of |-> Ratio(Len(q) * SeqSum(Squares(q)) - SeqSum(q) * SeqSum(q),
                            Len(q) * (Len(q) - 1))]

\* The values f[i] for i in S, in index order.
RECURSIVE Column(_, _)
Column(S, f) ==
    IF S = {} THEN <<>>
    ELSE LET i == CHOOSE j \in S : \A k \in S : j <= k
         IN  <<f[i]>> \o Column(S \ {i}, f)

(***************************************************************************)
(* BirthweightObserver: mean and standard deviation of the birth weight    *)
(* per (entrance year, sex, mother's iron fortification coverage).         *)
(***************************************************************************)
YEARS == <<>>

BirthWeightGroups(years) ==
    {<<y, sx, tg>> : y \in Range(years), sx \in {"Male", "Female"},
                     tg \in {"covered", "uncovered"}}

Lower(label) ==
    CASE label = "Male" -> "male" [] label = "Female" -> "female" [] OTHER -> label

\* The body of get_birth_weights, for the groups of the listed years: the rows
\* of a group, or the one-row frame {'birth_weight': [0.0]} when it has none.
BirthWeightsOver(years, population) ==
    LET Members(g) == {i \in Index(population) :
                          /\ YearOf(population[i].entrance_time) = g[1]
                          /\ population[i].sex = g[2]
                          /\ population[i].mother_iron_fortification_coverage = g[3]}
        Weights(g) == IF Members(g) = {} THEN <<0>>
                      ELSE Column(Members(g), [i \in Members(g) |-> population[i].birth_weight])
        pairs == UNION {{<<BirthWeightKey("mean", ToString(g[1]), Lower(g[2]), Lower(g[3])),
                           Mean(Weights(g))>>,
                         <<BirthWeightKey("sd", ToString(g[1]), Lower(g[2]), Lower(g[3])),
                           Std(Weights(g))>>} : g \in BirthWeightGroups(years)}
    IN  PairsToMap(pairs)

\* get_birth_weights: the groups are the product of project_globals.YEARS,
\* the sexes and the coverage groups.
get_birth_weights(population) == BirthWeightsOver(YEARS, population)

\* BirthweightObserver.metrics
BirthweightObserver_metrics(population, m) == MetricsUpdate(m, get_birth_weights(population))

\* The rows of BirthweightObserver's population view; weights in grams.
BirthWeightRows ==
    {[alive |-> "alive", sex |-> sx, entrance_time |-> e,
      mother_iron_fortification_coverage |-> tg, birth_weight |-> w] :
        sx \in {"Male", "Female"}, e \in {SimStart, StepsPerYear},
        tg \in {"covered", "uncovered"}, w \in {2400, 3000}}

BirthWeightInit ==
    /\ pop \in [Sims -> BirthWeightRows]
    /\ configuration = [by_age |-> FALSE, by_sex |-> TRUE, by_year |-> TRUE]
    /\ SetupDone
    /\ groups = NotCalled
    /\ ReshaperIdle
    /\ ObserversIdle
    /\ happened = NothingHappened
    /\ ToolsIdle

BirthweightMetrics ==
    /\ "birth_weight" \notin applied
    /\ metrics' = BirthweightObserver_metrics(pop, metrics)
    /\ applied' = applied \cup {"birth_weight"}
    /\ UNCHANGED <<pop, now, phase, mortality_person_time, person_time, counts,
                   anemia_person_time, updates, configuration, groups, codecVars,
                   results, collected, lbwsg_results, years_lived_with_disability,
                   happened, raised, returned>>
    /\ UNCHANGED toolVars

BirthWeightNext == BirthweightMetrics

BirthWeightSpec == BirthWeightInit /\ [][BirthWeightNext]_vars

\* C14: after BirthweightObserver's modifier ran, the mapping holds a mean key
\* and a standard-deviation key for every (year, sex, coverage) group of every
\* year in which a simulant of the population entered, the groups without
\* members among them.
C14_BirthWeightKeysPresent ==
    "birth_weight" \in applied =>
        \A g \in BirthWeightGroups(Column(Index(pop), [i \in Index(pop) |->
                                                          YearOf(pop[i].entrance_time)])) :
            /\ BirthWeightKey("mean", ToString(g[1]), Lower(g[2]), Lower(g[3])) \in DOMAIN metrics
            /\ BirthWeightKey("sd", ToString(g[1]), Lower(g[2]), Lower(g[3])) \in DOMAIN metrics

(***************************************************************************)
(* HemoglobinLevelObserver: at collect_metrics the hemoglobin levels of    *)
(* the simulants passing one of the listed ages are appended to the list   *)
(* of their category; the metrics modifier reports each list's mean and    *)
(* variance.                                                               *)
(***************************************************************************)
\* float(age) of an age label, in tenths of a year.
Float(age) == CASE age = "0.5" -> 5 [] age = "1.0" -> 10

\* to_years(event.step_size), in tenths of a year.
StepSize == 10 \div StepsPerYear

\* update_list(master, data_to_add): master[k].extend(data_to_add[k]); a key
\* master does not hold raises KeyError.
update_list_raises(master, data_to_add) == ~(DOMAIN data_to_add \subseteq DOMAIN master)
update_list(master, data_to_add) ==
    [k \in DOMAIN master |->
        IF k \in DOMAIN data_to_add THEN master[k] \o data_to_add[k] ELSE master[k]]

\* get_hemoglobin_stats(pop_in_group): nothing for an empty group, else the
\* levels of its males and of its females.
get_hemoglobin_stats(population) ==
    IF Index(population) = {} THEN EmptyMap
    ELSE LET Levels(sex) ==
                 LET S == {i \in Index(population) : population[i].sex = sex}
                 IN  Column(S, [i \in S |-> population[i].hemoglobin_level])
         IN  [k \in {HbStatKeyForSex("male"), HbStatKeyForSex("female")} |->
                 IF k = HbStatKeyForSex("male") THEN Levels("Male") ELSE Levels("Female")]

\* The (age, coverage, response) categories of on_collect_metrics, in loop order.
HbCategories ==
    Flatten([a \in DOMAIN HEMOGLOBIN_AGE_GROUPS |->
        <<<<HEMOGLOBIN_AGE_GROUPS[a], "covered", "responsive">>,
          <<HEMOGLOBIN_AGE_GROUPS[a], "covered", "non-responsive">>,
          <<HEMOGLOBIN_AGE_GROUPS[a], "uncovered", "responsive">>,
          <<HEMOGLOBIN_AGE_GROUPS[a], "uncovered", "non-responsive">>>>])

\* An age band that also takes the age at its upper end.
InAgeBandClosed(age_label, age) ==
    Float(age_label) <= age /\ age <= Float(age_label) + StepSize

\* (float(age) <= pop.age) & (pop.age < float(age) + to_years(event.step_size))
InAgeBand(age_label, age) ==
    Float(age_label) <= age /\ age < Float(age_label) + StepSize

\* The living simulants in the band of an age label: the view's query, then
\* the band.
PopAge(population, age_label) ==
    {i \in Index(population) :
        population[i].alive = "alive" /\ InAgeBand(age_label, population[i].age)}

\* An uncovered index that is the whole band.
WholeBand(pop_age, idx_covered) == pop_age

\* idx_uncovered = pop_age.index.difference(idx_covered)
IdxUncovered(pop_age, idx_covered) == pop_age \ idx_covered

\* The stats of one category, under the category's keys.
HbCategoryStats(population, cat) ==
    LET age == cat[1]
        pop_age == PopAge(population, age)
        idx_covered == {i \in pop_age : population[i].age > 5 /\ population[i].iron_coverage_started}
        cov_index == IF cat[2] = "covered" THEN idx_covered ELSE IdxUncovered(pop_age, idx_covered)
        resp_index == {i \in pop_age : population[i].iron_responsive = (cat[3] = "responsive")}
        stats == get_hemoglobin_stats(Restrict(population, cov_index \cap resp_index))
        pairs == {<<k \o "_at_age_" \o age \o "_status_" \o cat[2] \o "_responsive_" \o cat[3],
                    stats[k]>> : k \in DOMAIN stats}
    IN  PairsToMap(pairs)

\* HemoglobinLevelObserver.on_collect_metrics: update_list for each category.
RECURSIVE on_collect_metrics(_, _, _)
on_collect_metrics(population, held, cats) ==
    IF cats = <<>> THEN held
    ELSE on_collect_metrics(population,
                            update_list(held, HbCategoryStats(population, Head(cats))),
                            Tail(cats))

on_collect_metrics_raises(population, held) ==
    \E j \in DOMAIN HbCategories :
        update_list_raises(held, HbCategoryStats(population, HbCategories[j]))

\* str.replace(old, new)
RECURSIVE Join(_, _)
Join(parts, d) ==
    IF Len(parts) = 1 THEN parts[1] ELSE parts[1] \o d \o Join(Tail(parts), d)
Replace(k, old, new) == Join(Split(k, old), new)

\* post_process_hemoglobin: per key the mean of its list, and under the key
\* with 'mean' replaced by 'variance' the list's variance.
post_process_hemoglobin(raw_results) ==
    PairsToMap({<<k, Mean(raw_results[k])>> : k \in DOMAIN raw_results}
               \cup {<<Replace(k, "mean", "variance"), Var(raw_results[k])>> :
                        k \in DOMAIN raw_results})

\* HemoglobinLevelObserver.metrics
HemoglobinLevelObserver_metrics(held, m) == MetricsUpdate(m, post_process_hemoglobin(held))

\* The rows of the hemoglobin observer's population view, with the values of
\* the hemoglobin and iron_responsive pipelines: the coverage of males has
\* started, and all but the simulants of level 12 respond to iron.
HbRows ==
    {[alive |-> "alive", sex |-> sx, age |-> a, iron_coverage_started |-> (sx = "Male"),
      iron_responsive |-> (h # 12), hemoglobin_level |-> h] :
        sx \in {"Male", "Female"}, a \in {0, 5}, h \in {10, 12, 14}}

NothingCollected == [k \in DOMAIN get_results_template |-> <<>>]

\* HemoglobinLevelObserver.setup
HbInit ==
    /\ pop \in [Sims -> HbRows]
    /\ configuration = AllOn
    /\ now = 0
    /\ phase = "collect"
    /\ mortality_person_time = EmptyMap
    /\ person_time = EmptyMap
    /\ counts = EmptyMap
    /\ anemia_person_time = EmptyMap
    /\ updates = EmptyHistory
    /\ metrics = EmptyMap
    /\ groups = NotCalled
    /\ ReshaperIdle
    /\ results = get_results_template
    /\ collected = NothingCollected
    /\ lbwsg_results = EmptyMap
    /\ years_lived_with_disability = EmptyMap
    /\ applied = {}
    /\ raised = "none"
    /\ returned = <<>>
    /\ happened = NothingHappened
    /\ ToolsIdle

hbFrame == <<mortality_person_time, person_time, counts, anemia_person_time, updates,
             configuration, groups, codecVars, lbwsg_results, years_lived_with_disability,
             happened, returned>>

\* HemoglobinLevelObserver.on_collect_metrics
HemoglobinCollect ==
    /\ phase = "collect"
    /\ raised = "none"
    /\ IF on_collect_metrics_raises(pop, results)
       THEN /\ raised' = "KeyError"
            /\ UNCHANGED <<results, collected, phase>>
       ELSE /\ results' = on_collect_metrics(pop, results, HbCategories)
            /\ collected' = on_collect_metrics(pop, collected, HbCategories)
            /\ phase' = "forward"
            /\ UNCHANGED raised
    /\ metrics' = EmptyMap
    /\ applied' = {}
    /\ UNCHANGED <<pop, now, hbFrame>>
    /\ UNCHANGED toolVars

\* The host's clock steps forward; every simulant ages by the step size.
HbStepForward ==
    /\ phase = "forward"
    /\ now' = now + 1
    /\ pop' = [i \in Index(pop) |-> [pop[i] EXCEPT !.age = @ + StepSize]]
    /\ phase' = IF now + 1 < MaxSteps THEN "collect" ELSE "finished"
    /\ UNCHANGED <<results, collected, metrics, applied, raised, hbFrame>>
    /\ UNCHANGED toolVars

\* A modifier that hands out the statistics and starts the lists afresh.
HemoglobinMetricsAndReset ==
    /\ phase \in {"collect", "finished"}
    /\ raised = "none"
    /\ "hemoglobin" \notin applied
    /\ metrics' = HemoglobinLevelObserver_metrics(results, metrics)
    /\ applied' = applied \cup {"hemoglobin"}
    /\ results' = get_results_template
    /\ UNCHANGED <<pop, now, phase, collected, raised, hbFrame>>
    /\ UNCHANGED toolVars

\* HemoglobinLevelObserver.metrics, at a metrics request
HemoglobinMetrics ==
    /\ phase \in {"collect", "finished"}
    /\ raised = "none"
    /\ "hemoglobin" \notin applied
    /\ metrics' = HemoglobinLevelObserver_metrics(results, metrics)
    /\ applied' = applied \cup {"hemoglobin"}
    /\ UNCHANGED <<pop, now, phase, results, collected, raised, hbFrame>>
    /\ UNCHANGED toolVars

HbNext ==
    \/ HemoglobinCollect
    \/ HbStepForward
    \/ HemoglobinMetrics

HbSpec == HbInit /\ [][HbNext]_vars

\* C15: for every hemoglobin category, the mean and the variance the modifier
\* reports are the mean and the population variance of exactly the samples
\* collected for the category over all collect_metrics steps.
C15_HemoglobinMeanAndVariance ==
    "hemoglobin" \in applied =>
        \A k \in DOMAIN collected :
            collected[k] # <<>> =>
                /\ metrics[k] = Mean(collected[k])
                /\ metrics[Replace(k, "mean", "variance")] = Var(collected[k])

(***************************************************************************)
(* LBWSGObserver: statistics of birth weight and gestational age, taken    *)
(* when simulants are initialized.                                         *)
(***************************************************************************)
UNDERWEIGHT == 2500     \* grams
PRETERM == 37           \* weeks

get_lbwsg_stats(population) ==
    LET S == Index(population)
        weights == Column(S, [i \in S |-> population[i].birth_weight])
        times == Column(S, [i \in S |-> population[i].gestation_time])
        Below(q, limit) == Ratio(Cardinality({j \in DOMAIN q : q[j] < limit}), Len(q))
        keys == {"birth_weight_mean", "birth_weight_sd", "birth_weight_proportion_below_2500g",
                 "gestational_age_mean", "gestational_age_sd",
                 "gestational_age_proportion_below_37w"}
    IN  [k \in keys |->
            IF S = {} THEN Ratio(0, 1)
            ELSE CASE k = "birth_weight_mean" -> Mean(weights)
                   [] k = "birth_weight_sd" -> Std(weights)
                   [] k = "birth_weight_proportion_below_2500g" -> Below(weights, UNDERWEIGHT)
                   [] k = "gestational_age_mean" -> Mean(times)
                   [] k = "gestational_age_sd" -> Std(times)
                   [] k = "gestational_age_proportion_below_37w" -> Below(times, PRETERM)]

\* An on_initialize_simulants that keeps the values it already holds.
KeepEarlierResults(held, population) ==
    MetricsUpdate(get_lbwsg_stats(population), held)

\* LBWSGObserver.on_initialize_simulants: self.results.update(stats)
LBWSGObserver_on_initialize_simulants(held, population) ==
    MetricsUpdate(held, get_lbwsg_stats(population))

\* LBWSGObserver.metrics
LBWSGObserver_metrics(held, m) == MetricsUpdate(m, held)

(***************************************************************************)
(* A metrics request: the host hands its mapping to the metrics modifier   *)
(* of every observer, in an order the observers do not control.            *)
(***************************************************************************)
AllObservers ==
    {"mortality", "disease", "anemia", "births", "birth_weight", "lbwsg", "hemoglobin"}

MaxRequests == 2

\* The mapping as the host hands it to the first modifier: a key of the
\* host's own.
HostMetrics == [k \in {"total_population_tracked"} |-> NSims]

\* A row with the columns and pipeline values of every observer.
FullRow(sex, age, fa, state, anemia, weight, weeks, level) ==
    NewRow(sex, age, fa, "cat2", FALSE, state, anemia)
    @@ [entrance_time |-> SimStart, neural_tube_defects |->
            (IF sex = "Male" THEN NTD_MODEL_NAME ELSE NTD_SUSCEPTIBLE_STATE_NAME),
        birth_weight |-> weight, gestation_time |-> weeks,
        mother_iron_fortification_coverage |-> fa,
        iron_coverage_started |-> (sex = "Male"), iron_responsive |-> (sex = "Male"),
        hemoglobin_level |-> level]

\* The populations at the start of the run: the simulants reach one of the
\* hemoglobin observer's ages with the first step.
FullRows ==
    <<FullRow("Male", Float("0.5") - StepSize, "covered", DIARRHEA_SUSCEPTIBLE_STATE_NAME,
              "none", 2400, 36, 10),
      FullRow("Female", Float("1.0") - StepSize, "uncovered", DIARRHEA_WITH_CONDITION_STATE_NAME,
              "mild", 3000, 39, 12),
      FullRow("Male", Float("0.5") - StepSize, "covered", DIARRHEA_SUSCEPTIBLE_STATE_NAME,
              "none", 3600, 40, 14)>>
FullPopulations ==
    {[i \in Sims |-> FullRows[((i - 1) % Len(FullRows)) + 1]],
     [i \in Sims |-> FullRows[1]]}

\* The population at the first step's time_step__prepare, after
\* DiseaseObserver copied the disease state (observers.py 326-329).
Prepared(population) ==
    [i \in Index(population) |->
        [population[i] EXCEPT !.previous_diarrheal_diseases = population[i].diarrheal_diseases]]

\* The population at the first step's collect_metrics: the first simulant has
\* changed its disease state, the second has died, every living one has aged.
Stepped(population) ==
    [i \in Index(population) |->
        CASE i = 1 -> [population[i] EXCEPT !.age = @ + StepSize,
                                            !.diarrheal_diseases = OtherState(@)]
          [] i = 2 -> [population[i] EXCEPT !.alive = "dead", !.exit_time = 1,
                                            !.cause_of_death = "other_causes"]
          [] OTHER -> [population[i] EXCEPT !.age = @ + StepSize]]

\* The observers when the first step of a run has been handled: what their
\* handlers accumulated from the population at the step's prepare and at its
\* collect_metrics.
MetricsInit ==
    \E p0 \in FullPopulations :
        /\ pop = Stepped(Prepared(p0))
        /\ configuration \in {AllOn, AllOff}
        /\ now = 1
        /\ phase = "finished"
        /\ mortality_person_time = UpdateAll(EmptyMap, MortalityPartials(p0, configuration, 0))
        /\ person_time = UpdateAll(EmptyMap, StatePersonTimePartials(p0, configuration, 0))
        /\ anemia_person_time = UpdateAll(EmptyMap, AnemiaPartials(p0, configuration, 0))
        /\ counts = UpdateAll(EmptyMap, TransitionCountPartials(pop, configuration, 0))
        /\ results = on_collect_metrics(pop, get_results_template, HbCategories)
        /\ collected = on_collect_metrics(pop, NothingCollected, HbCategories)
        /\ lbwsg_results = LBWSGObserver_on_initialize_simulants(EmptyMap, p0)
        /\ years_lived_with_disability = EmptyMap
        /\ updates = EmptyHistory
        /\ happened = NothingHappened
        /\ ToolsIdle
        /\ metrics = HostMetrics
        /\ applied = {}
        /\ raised = "none"
        /\ returned = <<>>
        /\ groups = NotCalled
        /\ ReshaperIdle

accumulators == <<mortality_person_time, person_time, counts, anemia_person_time, results,
                  lbwsg_results, years_lived_with_disability>>
requestFrame == <<pop, now, phase, accumulators, collected, updates, configuration, groups,
                  codecVars, happened, raised, returned>>

\* MortalityObserver.metrics
MortalityMetrics ==
    /\ phase = "finished"
    /\ "mortality" \notin applied
    /\ metrics' = MortalityObserver_metrics(pop, configuration, now, mortality_person_time, metrics)
    /\ applied' = applied \cup {"mortality"}
    /\ UNCHANGED requestFrame
    /\ UNCHANGED toolVars

\* DiseaseObserver.metrics
DiseaseMetrics ==
    /\ phase = "finished"
    /\ "disease" \notin applied
    /\ metrics' = DiseaseObserver_metrics(counts, person_time, metrics)
    /\ applied' = applied \cup {"disease"}
    /\ UNCHANGED requestFrame
    /\ UNCHANGED toolVars

\* AnemiaObserver.metrics
AnemiaMetrics ==
    /\ phase = "finished"
    /\ "anemia" \notin applied
    /\ metrics' = AnemiaObserver_metrics(anemia_person_time, metrics)
    /\ applied' = applied \cup {"anemia"}
    /\ UNCHANGED requestFrame
    /\ UNCHANGED toolVars

\* LBWSGObserver.metrics
LBWSGMetrics ==
    /\ phase = "finished"
    /\ "lbwsg" \notin applied
    /\ metrics' = LBWSGObserver_metrics(lbwsg_results, metrics)
    /\ applied' = applied \cup {"lbwsg"}
    /\ UNCHANGED requestFrame
    /\ UNCHANGED toolVars

\* Every modifier has run: the host returns the mapping; a later request
\* starts from the host's mapping again.
NextRequest ==
    /\ applied = AllObservers
    /\ Len(returned) < MaxRequests
    /\ returned' = Append(returned, metrics)
    /\ metrics' = HostMetrics
    /\ applied' = {}
    /\ UNCHANGED <<pop, now, phase, accumulators, collected, updates, configuration, groups,
                   codecVars, happened, raised>>
    /\ UNCHANGED toolVars

MetricsNext ==
    \/ MortalityMetrics
    \/ DiseaseMetrics
    \/ AnemiaMetrics
    \/ LiveBirthMetrics
    \/ BirthweightMetrics
    \/ LBWSGMetrics
    \/ HemoglobinMetrics
    \/ NextRequest

MetricsSpec == MetricsInit /\ [][MetricsNext]_vars

\* C11: a metrics request leaves every observer's accumulator as it was
\* (person time, counts, the hemoglobin sample lists, the LBWSG results), and
\* requests with no step in between return the same mapping.
C11_MetricsLeavesAccumulators ==
    /\ [][accumulators' = accumulators]_vars
    /\ [](\A a, b \in DOMAIN returned : returned[a] = returned[b])

\* Two requests have returned; the mapping holds person time, a transition
\* count, a death, a hemoglobin mean and the LBWSG statistics.
C11_Witness ==
    /\ Len(returned) = 2
    /\ \E k \in DOMAIN mortality_person_time :
          mortality_person_time[k] > 0 /\ returned[2][k] = mortality_person_time[k]
    /\ \E k \in DOMAIN counts : counts[k] > 0 /\ returned[2][k] = counts[k]
    /\ returned[2]["total_population_dead"] = 1
    /\ \E k \in DOMAIN results : Len(results[k]) > 1 /\ returned[2][k] = Mean(results[k])
    /\ returned[2]["birth_weight_mean"] = lbwsg_results["birth_weight_mean"]

\* What one observer's modifier writes into an empty mapping.
Contribution(observer) ==
    CASE observer = "mortality" ->
             MortalityObserver_metrics(pop, configuration, now, mortality_person_time, EmptyMap)
      [] observer = "disease" -> DiseaseObserver_metrics(counts, person_time, EmptyMap)
      [] observer = "anemia" -> AnemiaObserver_metrics(anemia_person_time, EmptyMap)
      [] observer = "births" ->
             LiveBirthWithNTDObserver_metrics(pop, [configuration EXCEPT !.by_age = FALSE], EmptyMap)
      [] observer = "birth_weight" -> BirthweightObserver_metrics(pop, EmptyMap)
      [] observer = "lbwsg" -> LBWSGObserver_metrics(lbwsg_results, EmptyMap)
      [] observer = "hemoglobin" -> HemoglobinLevelObserver_metrics(results, EmptyMap)

\* The modifiers applied to the host's mapping in the order the components
\* are listed in observers.py.
InListedOrder ==
    HemoglobinLevelObserver_metrics(results,
        LBWSGObserver_metrics(lbwsg_results,
            BirthweightObserver_metrics(pop,
                LiveBirthWithNTDObserver_metrics(pop, [configuration EXCEPT !.by_age = FALSE],
                    AnemiaObserver_metrics(anemia_person_time,
                        DiseaseObserver_metrics(counts, person_time,
                            MortalityObserver_metrics(pop, configuration, now,
                                                      mortality_person_time, HostMetrics)))))))

\* C16: no two observers write the same key (the birth weight keys of a listed
\* year included) and none writes a key of the host's; in whatever order the modifiers have run, the host's own keys are
\* as the host set them, and once all have run the mapping is the same.
C16_ModifiersCommute ==
    /\ applied = {} =>
          \A a, b \in AllObservers :
              /\ a # b => DOMAIN Contribution(a) \cap DOMAIN Contribution(b) = {}
              /\ DOMAIN Contribution(a) \cap DOMAIN HostMetrics = {}
              /\ a # "birth_weight" =>
                    DOMAIN Contribution(a)
                        \cap DOMAIN BirthWeightsOver(<<YearOf(SimStart)>>, pop) = {}
    /\ \A k \in DOMAIN HostMetrics : k \in DOMAIN metrics /\ metrics[k] = HostMetrics[k]
    /\ applied = AllObservers => metrics = InListedOrder

\* Every modifier has run, and the mapping holds keys of six observers next
\* to the host's key.
C16_Witness ==
    /\ applied = AllObservers
    /\ metrics["total_population_tracked"] = NSims
    /\ "total_population_living" \in DOMAIN metrics
    /\ "birth_weight_mean" \in DOMAIN metrics
    /\ \E k \in DOMAIN counts : counts[k] > 0 /\ metrics[k] = counts[k]
    /\ \E k \in DOMAIN anemia_person_time : k \in DOMAIN metrics
    /\ KeysOf(metrics, "live_births") # {}
    /\ KeysOf(metrics, "hemoglobin_variance") # {}

(***************************************************************************)
(* Setup of the observers from the metrics configuration.                  *)
(***************************************************************************)
\* The toggles the observers read.
KnownToggles == {"by_age", "by_sex", "by_year"}

\* builder.configuration['metrics'][<observer>].to_dict(): the defaults with
\* the run's overrides, which may add keys of their own.
ObserverConfigurations ==
    Config
    \cup {c @@ [k \in {extra} |-> b] :
            c \in Config, extra \in {"by_location", "by_cause"}, b \in BOOLEAN}

HasUnknownToggle(config) == DOMAIN config \ KnownToggles # {}

ConfigInit ==
    /\ pop \in InitialPopulations
    /\ configuration \in ObserverConfigurations
    /\ now = 0
    /\ phase = "setup"
    /\ mortality_person_time = EmptyMap
    /\ person_time = EmptyMap
    /\ counts = EmptyMap
    /\ anemia_person_time = EmptyMap
    /\ updates = EmptyHistory
    /\ metrics = EmptyMap
    /\ groups = NotCalled
    /\ ReshaperIdle
    /\ ObserversIdle
    /\ happened = NothingHappened
    /\ ToolsIdle

\* DiseaseObserver.setup: the configuration is read with to_dict(); its by_age
\* and by_sex entries pick the columns of the view; the Counters start empty.
DiseaseObserverSetup ==
    /\ phase = "setup"
    /\ IF {"by_age", "by_sex"} \subseteq DOMAIN configuration
       THEN /\ counts' = EmptyMap
            /\ person_time' = EmptyMap
            /\ phase' = "setup_births"
            /\ UNCHANGED raised
       ELSE /\ raised' = "KeyError"
            /\ UNCHANGED <<counts, person_time, phase>>
    /\ UNCHANGED <<pop, now, mortality_person_time, anemia_person_time, updates, metrics,
                   configuration, groups, codecVars, results, collected, lbwsg_results,
                   years_lived_with_disability, happened, applied, returned>>
    /\ UNCHANGED toolVars

\* LiveBirthWithNTDObserver.setup: to_dict(), by_age set to False in the
\* observer's own copy, by_sex read for the columns of the view.
LiveBirthWithNTDObserverSetup ==
    /\ phase = "setup_births"
    /\ IF "by_sex" \in DOMAIN configuration
       THEN phase' = "prepare_disease" /\ UNCHANGED raised
       ELSE raised' = "KeyError" /\ UNCHANGED phase
    /\ UNCHANGED <<pop, now, mortality_person_time, person_time, counts, anemia_person_time,
                   updates, metrics, configuration, groups, codecVars, results, collected,
                   lbwsg_results, years_lived_with_disability, happened, applied, returned>>
    /\ UNCHANGED toolVars

ConfigNext ==
    \/ DiseaseObserverSetup
    \/ LiveBirthWithNTDObserverSetup
    \/ DiseasePrepare

ConfigSpec == ConfigInit /\ [][ConfigNext]_vars

\* C17: with a stratification toggle other than by_age, by_year and by_sex in
\* the metrics configuration, setup does not complete: no time_step__prepare
\* or collect_metrics event is handled.
C17_UnknownToggleRejected ==
    HasUnknownToggle(configuration) => phase \in {"setup", "setup_births"}

(***************************************************************************)
(* DisabilityObserver: at time_step__prepare the years lived with          *)
(* disability of the step are accumulated per stratum, and each tracked    *)
(* living simulant's running total in the population table grows by its    *)
(* disability weight.  Weights are in hundredths.                          *)
(***************************************************************************)
TOTAL_YLDS_COLUMN == "years_lived_with_disability"

\* The whole index: no query.
WholeIndex(population) == Index(population)

\* population_view.get(event.index, query='tracked == True and alive == "alive"')
TrackedAndAlive(population) ==
    {i \in Index(population) : population[i].tracked /\ population[i].alive = "alive"}

\* get_years_lived_with_disability: per cause, the disability weights of the
\* rows of each age-and-sex cell, for one step size.
get_years_lived_with_disability(population, config, current_year) ==
    LET Part(cause) ==
            get_group_counts(population, [i \in Index(population) |-> TRUE], config,
                             "ylds_due_to_" \o cause, current_year,
                             [i \in Index(population) |-> population[i].disability_weight])
    IN  PairsToMap(UNION {MapPairs(Part(CAUSES_OF_DISABILITY[j])) :
                            j \in DOMAIN CAUSES_OF_DISABILITY})

\* DisabilityObserver.update_metrics' partials, in loop order.
DisabilityPartials(population, config, t) ==
    LET g == group(population)
    IN  [n \in DOMAIN g |->
            update_labels(get_years_lived_with_disability(g[n][2], config, YearOf(t)), g[n][1])]

\* population_view.update(pop) after the column was increased: the rows of
\* the view's selection are written back, the others stay.
AddDisabilityWeight(population, selected) ==
    [i \in Index(population) |->
        IF i \in selected
        THEN [population[i] EXCEPT !.years_lived_with_disability =
                                       @ + population[i].disability_weight]
        ELSE population[i]]

DisabilityRows ==
    {NewRow("Male", 3, "covered", "cat2", FALSE, state, "none")
        @@ [years_lived_with_disability |-> 0, disability_weight |-> w] :
        <<state, w>> \in {<<DIARRHEA_SUSCEPTIBLE_STATE_NAME, 0>>,
                          <<DIARRHEA_WITH_CONDITION_STATE_NAME, 10>>,
                          <<DIARRHEA_WITH_CONDITION_STATE_NAME, 20>>}}

DisabilityInit ==
    /\ pop \in [Sims -> DisabilityRows]
    /\ configuration = AllOn
    /\ now = 0
    /\ phase = "prepare_disability"
    /\ mortality_person_time = EmptyMap
    /\ person_time = EmptyMap
    /\ counts = EmptyMap
    /\ anemia_person_time = EmptyMap
    /\ updates = EmptyHistory
    /\ metrics = EmptyMap
    /\ groups = NotCalled
    /\ ReshaperIdle
    /\ ObserversIdle
    /\ happened = NothingHappened
    /\ ToolsIdle

disabilityFrame == <<mortality_person_time, person_time, counts, anemia_person_time, updates,
                     metrics, configuration, groups, codecVars, results, collected,
                     lbwsg_results, happened, applied, raised, returned>>

\* DisabilityObserver.on_time_step_prepare
DisabilityPrepare ==
    /\ phase = "prepare_disability"
    /\ LET selected == TrackedAndAlive(pop)
       IN  /\ years_lived_with_disability' =
                  UpdateAll(years_lived_with_disability,
                            DisabilityPartials(Restrict(pop, selected), configuration, now))
           /\ pop' = AddDisabilityWeight(pop, selected)
    /\ phase' = "step"
    /\ UNCHANGED <<now, disabilityFrame>>
    /\ UNCHANGED toolVars

\* The host's step: a tracked living simulant stays as it is, dies or leaves
\* the tracked population; the clock steps forward.
DisabilityHostStep ==
    /\ phase = "step"
    /\ \E change \in [Index(pop) -> {"stay", "die", "untrack"}] :
          pop' = [i \in Index(pop) |->
                    IF i \notin TrackedAndAlive(pop) \/ change[i] = "stay" THEN pop[i]
                    ELSE IF change[i] = "die"
                         THEN [pop[i] EXCEPT !.alive = "dead", !.exit_time = now + 1,
                                             !.cause_of_death = "other_causes"]
                         ELSE [pop[i] EXCEPT !.tracked = FALSE]]
    /\ now' = now + 1
    /\ phase' = IF now + 1 < MaxSteps THEN "prepare_disability" ELSE "finished"
    /\ UNCHANGED <<years_lived_with_disability, disabilityFrame>>
    /\ UNCHANGED toolVars

DisabilityNext ==
    \/ DisabilityPrepare
    \/ DisabilityHostStep

DisabilitySpec == DisabilityInit /\ [][DisabilityNext]_vars

\* C20: the step that handles time_step__prepare adds each tracked, living
\* simulant's disability weight to its years_lived_with_disability in the
\* population table and leaves the rows of the dead and the untracked as they
\* were.
C20_RunningTotalUpdated ==
    [][(phase = "prepare_disability" /\ phase' = "step") =>
          \A i \in Index(pop) :
              IF pop[i].tracked /\ pop[i].alive = "alive"
              THEN pop'[i] = [pop[i] EXCEPT !.years_lived_with_disability =
                                                @ + pop[i].disability_weight]
              ELSE pop'[i] = pop[i]]_vars

\* After the second time_step__prepare a living tracked simulant holds twice
\* its weight, and a simulant that died or left after the first step holds
\* its weight once.
C20_Witness ==
    /\ phase = "step"
    /\ now = 1
    /\ \E i \in Index(pop) :
          /\ pop[i].tracked /\ pop[i].alive = "alive"
          /\ pop[i].disability_weight = 20
          /\ pop[i].years_lived_with_disability = 40
    /\ \E i \in Index(pop) :
          /\ ~pop[i].tracked \/ pop[i].alive = "dead"
          /\ pop[i].disability_weight = 20
          /\ pop[i].years_lived_with_disability = 20

(***************************************************************************)
(* MortalityObserver's totals at the end of a run in which simulants die   *)
(* or leave the tracked population.                                        *)
(***************************************************************************)
MortalityTotalsNext ==
    \/ DisabilityPrepare
    \/ DisabilityHostStep
    \/ MortalityMetrics

MortalityTotalsSpec == DisabilityInit /\ [][MortalityTotalsNext]_vars

Untracked(population) ==
    {i \in Index(population) : population[i].alive = "alive" /\ ~population[i].tracked}

\* The three totals are as the observer computes them: the living are the
\* alive and tracked, the dead are the dead, the years of life lost are the
\* life expectancies of the dead.
TotalsReported ==
    LET living == {i \in Index(pop) : pop[i].alive = "alive" /\ pop[i].tracked}
        dead == {i \in Index(pop) : pop[i].alive = "dead"}
    IN  /\ metrics["total_population_living"] = Cardinality(living)
        /\ metrics["total_population_dead"] = Cardinality(dead)
        /\ metrics["years_of_life_lost"] =
               SumOver(dead, [i \in dead |-> life_expectancy(pop[i])])
        /\ living \cap dead = {}

\* C21 as stated: after MortalityObserver.metrics the totals are those of the
\* alive-and-tracked and of the dead, and the two counts together cover the
\* whole population.
C21_TotalsCoverPopulation ==
    "mortality" \in applied =>
        /\ TotalsReported
        /\ metrics["total_population_living"] + metrics["total_population_dead"]
               = Cardinality(Index(pop))

\* C21: after MortalityObserver.metrics the totals are those of the
\* alive-and-tracked and of the dead; the two sets are disjoint, and together
\* they cover the population except the living simulants that are no longer
\* tracked.
C21_MortalityTotals ==
    "mortality" \in applied =>
        /\ TotalsReported
        /\ metrics["total_population_living"] + metrics["total_population_dead"]
               = Cardinality(Index(pop)) - Cardinality(Untracked(pop))

\* The metrics of a run in which one simulant died and another left the
\* tracked population.
C21_Witness ==
    /\ "mortality" \in applied
    /\ Untracked(pop) # {}
    /\ metrics["total_population_dead"] >= 1
    /\ metrics["years_of_life_lost"] > 0
    /\ metrics["total_population_living"] + metrics["total_population_dead"]
           < Cardinality(Index(pop))

(***************************************************************************)
(* The reshaper's table functions.  A table is its list of column names    *)
(* and its rows in order; a row maps each column name to its cell.  Cells  *)
(* of value columns are written as pandas prints them ("3000.0"), NaN is   *)
(* the missing value.                                                      *)
(***************************************************************************)
MaxRows == 2        \* rows of a table handed to the reshaper

INPUT_DRAW_COLUMN == "input_draw"
SCENARIO_COLUMN == "scenario"
GROUPBY_COLUMNS == <<INPUT_DRAW_COLUMN, SCENARIO_COLUMN>>

Select(columns, S) == SelectSeq(columns, LAMBDA c : c \in S)
Without(columns, S) == SelectSeq(columns, LAMBDA c : c \notin S)

\* DataFrame.stack() of one row: one entry per column, in column order, the
\* missing cells dropped (dropna=True is the default).
StackRow(row, columns) ==
    LET kept == SelectSeq(columns, LAMBDA c : row[c] # NaN)
    IN  [j \in DOMAIN kept |->
            [input_draw |-> row[INPUT_DRAW_COLUMN], scenario |-> row[SCENARIO_COLUMN],
             process |-> kept[j], value |-> row[kept[j]]]]

\* pivot_data(data): set_index(GROUPBY_COLUMNS).stack().reset_index(), the
\* stacked level renamed 'process' and the cells 'value'.
pivot_data(table) ==
    LET value_columns == Without(table.columns, Range(GROUPBY_COLUMNS))
    IN  [columns |-> GROUPBY_COLUMNS \o <<"process", "value">>,
         rows |-> Flatten([i \in DOMAIN table.rows |-> StackRow(table.rows[i], value_columns)])]

\* The wide tables handed to pivot_data: the draw and scenario of each row
\* and two columns of the LBWSG observer; the standard deviation of a batch
\* of one simulant is missing.
WideColumns == GROUPBY_COLUMNS \o <<"birth_weight_mean", "birth_weight_sd">>
WideRows ==
    {[input_draw |-> d, scenario |-> "baseline", birth_weight_mean |-> m, birth_weight_sd |-> sd] :
        d \in {0, 1}, m \in {"0.0", "3000.0"}, sd \in {"0.0", "500.0", NaN}}
WideTables ==
    {[columns |-> WideColumns, rows |-> rows] :
        rows \in UNION {[1..n -> WideRows] : n \in 0..MaxRows}}

\* Every variable of the simulation at rest: the reshaper runs after it.
NoSimulation ==
    /\ pop = [i \in {} |-> 0]
    /\ configuration = AllOn
    /\ SetupDone
    /\ groups = NotCalled
    /\ ReshaperIdle
    /\ ObserversIdle
    /\ happened = NothingHappened

PivotInit ==
    /\ NoSimulation
    /\ data \in WideTables
    /\ output = NoTable
    /\ pop_data = {}
    /\ ColumnsIdle
    /\ BuildIdle

\* pivot_data(data)
PivotData ==
    /\ output = NoTable
    /\ output' = pivot_data(data)
    /\ UNCHANGED <<simVars, groups, codecVars, obsVars, happened, data, pop_data, columnVars,
                   buildVars>>

PivotNext == PivotData

PivotSpec == PivotInit /\ [][PivotNext]_vars

\* The long table's row for row i's column c.
LongRow(i, c) ==
    [input_draw |-> data.rows[i][INPUT_DRAW_COLUMN], scenario |-> data.rows[i][SCENARIO_COLUMN],
     process |-> c, value |-> data.rows[i][c]]

\* C22: pivot_data returns exactly one row for every pair of an input row and
\* a value column, with that row's input_draw and scenario, the column name
\* as 'process' and the cell as 'value', whatever the cell is (a missing cell
\* included), and no other row: the pairs appear row by row, in column order.
C22_PivotKeepsEveryPair ==
    output # NoTable =>
        LET value_columns == Without(data.columns, Range(GROUPBY_COLUMNS))
            n == Len(value_columns)
        IN  /\ Len(output.rows) = Len(data.rows) * n
            /\ \A i \in DOMAIN data.rows : \A j \in 1..n :
                   output.rows[(i - 1) * n + j] = LongRow(i, value_columns[j])

(***************************************************************************)
(* sort_data: the rows in the fixed column priority.                       *)
(***************************************************************************)
COLUMN_SORT_ORDER ==
    <<"year", "age_group", "sex", "risk", "cause", "treatment_group", "birth_weight",
      "gestational_age", "folic_acid_fortification_group", "vitamin_a_fortification_group",
      "measure", "input_draw">>

\* The characters of the column values, in code-point order.
Alphabet == "0123456789ABCDEFGHIJKLMNOPQRSTUVWXYZ_abcdefghijklmnopqrstuvwxyz"

\* Python's a < b on strings.
RECURSIVE StrLess(_, _)
StrLess(a, b) ==
    IF b = "" THEN FALSE
    ELSE IF a = "" THEN TRUE
    ELSE LET x == Find(Alphabet, SubSeq(a, 1, 1), 1)
             y == Find(Alphabet, SubSeq(b, 1, 1), 1)
         IN  \/ x < y
             \/ x = y /\ StrLess(SubSeq(a, 2, Len(a)), SubSeq(b, 2, Len(b)))

\* The order of a column's cells: draws are integers, the other sort columns
\* hold strings.
CellLess(c, a, b) == IF c = INPUT_DRAW_COLUMN THEN a < b ELSE StrLess(a, b)

\* The columns of the table in the table's own order, those of
\* COLUMN_SORT_ORDER only.
SortOrderOfTable(columns) == Select(columns, Range(COLUMN_SORT_ORDER))

\* sort_order = [c for c in COLUMN_SORT_ORDER if c in data.columns]
SortOrder(columns) == Select(COLUMN_SORT_ORDER, Range(columns))

\* Row r1 sorts strictly before row r2 by the columns of by, the first the
\* most significant.
RECURSIVE RowLess(_, _, _)
RowLess(r1, r2, by) ==
    IF by = <<>> THEN FALSE
    ELSE \/ CellLess(Head(by), r1[Head(by)], r2[Head(by)])
         \/ r1[Head(by)] = r2[Head(by)] /\ RowLess(r1, r2, Tail(by))

\* DataFrame.sort_values(by) with several columns: a stable sort, rows with
\* equal keys keep their order.
RECURSIVE SortValues(_, _)
SortValues(rows, by) ==
    IF rows = <<>> THEN <<>>
    ELSE LET n == Len(rows)
             sorted == SortValues(SubSeq(rows, 1, n - 1), by)
             k == Cardinality({i \in DOMAIN sorted : ~RowLess(rows[n], sorted[i], by)})
         IN  SubSeq(sorted, 1, k) \o <<rows[n]>> \o SubSeq(sorted, k + 1, n - 1)

\* sort_data(data)
sort_data(table) ==
    LET sort_order == SortOrder(table.columns)
        other_cols == Without(table.columns, Range(sort_order))
    IN  [columns |-> sort_order \o other_cols,
         rows |-> SortValues(table.rows, sort_order)]

\* The tables handed to sort_data: those of get_measure_no_split (draw,
\* scenario, measure, value) and those of get_births (the decoded year, sex
\* and folic-acid group after the measure).
LongTables ==
    {[columns |-> <<INPUT_DRAW_COLUMN, SCENARIO_COLUMN, "measure", "value">>, rows |-> rows] :
        rows \in UNION {[1..n ->
            {[input_draw |-> d, scenario |-> "baseline", measure |-> m, value |-> v] :
                d \in {0, 1}, m \in {"birth_weight_mean", "birth_weight_sd"},
                v \in {"1.0", "2.0"}}] : n \in 0..MaxRows}}
    \cup
    {[columns |-> <<INPUT_DRAW_COLUMN, SCENARIO_COLUMN, "value", "measure", "year", "sex",
                    "folic_acid_fortification_group">>, rows |-> rows] :
        rows \in UNION {[1..n ->
            {[input_draw |-> d, scenario |-> "baseline", value |-> "1.0",
              measure |-> "live_births", year |-> y, sex |-> s,
              folic_acid_fortification_group |-> "covered"] :
                d \in {0, 1}, y \in {"2020", "2021"}, s \in {"male", "female"}}] :
            n \in 0..MaxRows}}

SortInit ==
    /\ NoSimulation
    /\ data \in LongTables
    /\ output = NoTable
    /\ pop_data = {}
    /\ ColumnsIdle
    /\ BuildIdle

\* sort_data(data)
SortData ==
    /\ output = NoTable
    /\ output' = sort_data(data)
    /\ UNCHANGED <<simVars, groups, codecVars, obsVars, happened, data, pop_data, columnVars,
                   buildVars>>

SortNext == SortData

SortTableSpec == SortInit /\ [][SortNext]_vars

\* Row r1 comes before row r2 in the priority of COLUMN_SORT_ORDER: they
\* differ in a sort column of the table, and in the first such column r1 has
\* the smaller cell.
Precedes(r1, r2, columns) ==
    \E p \in DOMAIN COLUMN_SORT_ORDER :
        LET c == COLUMN_SORT_ORDER[p]
        IN  /\ c \in Range(columns)
            /\ CellLess(c, r1[c], r2[c])
            /\ \A q \in 1..(p - 1) :
                  COLUMN_SORT_ORDER[q] \in Range(columns) =>
                      r1[COLUMN_SORT_ORDER[q]] = r2[COLUMN_SORT_ORDER[q]]

Occurrences(rows, r) == Cardinality({i \in DOMAIN rows : rows[i] = r})

\* C23: sort_data returns the rows of its input, each as often as it came, and
\* the same columns; no row comes after a row it precedes in the priority of
\* COLUMN_SORT_ORDER, read over the sort columns the table has; sorting the
\* result again changes nothing.
C23_SortData ==
    output # NoTable =>
        /\ Len(output.rows) = Len(data.rows)
        /\ \A r \in Range(data.rows) \cup Range(output.rows) :
              Occurrences(output.rows, r) = Occurrences(data.rows, r)
        /\ Len(output.columns) = Len(data.columns)
        /\ Range(output.columns) = Range(data.columns)
        /\ \A i, j \in DOMAIN output.rows :
              i < j => ~Precedes(output.rows[j], output.rows[i], data.columns)
        /\ sort_data(output) = output

\* A table without the age_group column, whose rows came in another order
\* than the sorted one: the year decides before the draw.
C23_Witness ==
    /\ output # NoTable
    /\ "year" \in Range(data.columns) /\ "age_group" \notin Range(data.columns)
    /\ Len(data.rows) = 2
    /\ output.rows # data.rows
    /\ output.rows[1].year = "2020" /\ output.rows[2].year = "2021"
    /\ output.rows[1].input_draw > output.rows[2].input_draw
    /\ output.columns[1] = "year"

(***************************************************************************)
(* Simulants created during a step.  The host creates them in the step's   *)
(* time_step event, after time_step__prepare; each observer's              *)
(* on_initialize_simulants fills its columns for the new rows.             *)
(***************************************************************************)
MaxBorn == 1        \* simulants created during a run

\* A previous-state column that starts in the susceptible state.
InitializedAsSusceptible(row) ==
    [row EXCEPT !.previous_diarrheal_diseases = DIARRHEA_SUSCEPTIBLE_STATE_NAME]

\* DiseaseObserver.on_initialize_simulants: the previous-state column of the
\* new rows is the empty string.
DiseaseObserver_on_initialize_simulants(row) ==
    [row EXCEPT !.previous_diarrheal_diseases = ""]

\* A run that starts with one simulant, present from before the first step.
NewbornInit ==
    /\ pop = [i \in {1} |->
                 DiseaseObserver_on_initialize_simulants(
                     NewRow("Female", 8, "uncovered", "cat1", TRUE,
                            DIARRHEA_SUSCEPTIBLE_STATE_NAME, "none") @@ [entrance_time |-> -1])]
    /\ configuration = AllOn
    /\ SetupDone
    /\ groups = NotCalled
    /\ ReshaperIdle
    /\ ObserversIdle
    /\ happened = NothingHappened
    /\ ToolsIdle

\* The host creates a simulant during the step, in either disease state; its
\* entrance time is the event time, the end of the step.
CreateSimulant ==
    /\ phase = "step"
    /\ Cardinality(Index(pop)) < 1 + MaxBorn
    /\ \E state \in Range(DIARRHEA_MODEL_STATES) :
          pop' = pop @@ ((Cardinality(Index(pop)) + 1) :>
                     DiseaseObserver_on_initialize_simulants(
                         NewRow("Male", 0, "covered", "cat2", FALSE, state, "none")
                         @@ [entrance_time |-> now + 1]))
    /\ UNCHANGED <<now, phase, mortality_person_time, person_time, counts, anemia_person_time,
                   updates, metrics, configuration, groups, codecVars, obsVars, happened>>
    /\ UNCHANGED toolVars

NewbornNext ==
    \/ MortalityPrepare
    \/ DiseasePrepare
    \/ AnemiaPrepare
    \/ CreateSimulant
    \/ HostStep
    \/ CollectMetrics
    \/ StepForward

NewbornSpec == NewbornInit /\ [][NewbornNext]_vars

\* The simulants created in the current step, after its time_step__prepare.
CreatedThisStep == {i \in Index(pop) : pop[i].entrance_time = now + 1}

CollectsHandled == now + (IF phase = "forward" THEN 1 ELSE 0)

\* The simulant's age at the t-th collect_metrics of the run.
AgeAtCollect(i, t) == pop[i].age - (now - (t - 1)) * StepSize

\* The simulant's age has passed through the band of the age label: it was
\* below the band's end at the first collect_metrics and has reached the
\* band's start by the last.
PassedThrough(i, age_label) ==
    /\ CollectsHandled >= 1
    /\ AgeAtCollect(i, 1) < Float(age_label) + StepSize
    /\ AgeAtCollect(i, CollectsHandled) >= Float(age_label)

\* The labels of an age band's sample lists, and the list's key.
BandLists ==
    Range(SEXES) \X Range(HEMOGLOBIN_STATUS_GROUPS) \X Range(HEMOGLOBIN_RESPONSE_GROUPS)
ListKey(age_label, list) == HbCollectKey(list[1], age_label, list[2], list[3])
BandKeys(age_label) == {ListKey(age_label, list) : list \in BandLists}

\* How often a level stands in the sample lists of the given keys.
SamplesOf(lists, keys, level) ==
    SumOver(keys, [k \in keys |-> Cardinality({j \in DOMAIN lists[k] : lists[k][j] = level})])

Levels == {pop[i].hemoglobin_level : i \in Index(pop)}

\* C25: with every simulant alive and ageing by exactly the step size, the
\* sample lists of each age band hold one sample of every simulant whose age
\* has passed through the band, and no other: per band and level, as many
\* samples as simulants of that level have passed through.
C25_OneSamplePerBand ==
    raised = "none" =>
        \A a \in Range(HEMOGLOBIN_AGE_GROUPS) :
            LET keys == BandKeys(a)
                passed == {i \in Index(pop) : PassedThrough(i, a)}
            IN  \A h \in Levels :
                    SamplesOf(collected, keys, h) =
                        Cardinality({i \in passed : pop[i].hemoglobin_level = h})

\* At the end of the run a simulant has passed through both bands and was
\* sampled in each, another through the first band only.
C25_Witness ==
    /\ phase = "finished"
    /\ raised = "none"
    /\ \E i, j \in Index(pop) :
          /\ pop[i].hemoglobin_level = 10 /\ pop[j].hemoglobin_level = 14
          /\ PassedThrough(i, "0.5") /\ PassedThrough(i, "1.0")
          /\ PassedThrough(j, "0.5") /\ ~PassedThrough(j, "1.0")
    /\ SamplesOf(collected, BandKeys("0.5"), 10) = 1
    /\ SamplesOf(collected, BandKeys("1.0"), 10) = 1
    /\ SamplesOf(collected, BandKeys("0.5"), 14) = 1
    /\ SamplesOf(collected, BandKeys("1.0"), 14) = 0

\* The labels of the sample list a simulant of an age band belongs to.
CoverageLabel(row) ==
    IF row.age > Float("0.5") /\ row.iron_coverage_started THEN "covered" ELSE "uncovered"
ResponseLabel(row) == IF row.iron_responsive THEN "responsive" ELSE "non-responsive"
OwnList(row) == <<Lower(row.sex), CoverageLabel(row), ResponseLabel(row)>>

\* The readings a step has appended to a list.
Appended(before, after) == SubSeq(after, Len(before) + 1, Len(after))

\* How often a level stands among readings.
Readings(q, level) == Cardinality({j \in DOMAIN q : q[j] = level})

\* C26: collect_metrics appends the reading of every simulant of an age band
\* to exactly one sample list, the one of the simulant's sex, coverage and
\* response: every simulant of the band has a list of its own among the
\* band's lists, and per list and level the list receives as many readings as
\* the band has simulants of that level with the list's labels.
C26_OneListPerSimulant ==
    [][(phase = "collect" /\ phase' = "forward") =>
          \A a \in Range(HEMOGLOBIN_AGE_GROUPS) :
              LET pop_age == PopAge(pop, a)
              IN  /\ \A i \in pop_age : OwnList(pop[i]) \in BandLists
                  /\ \A list \in BandLists :
                        LET k == ListKey(a, list)
                            new == Appended(collected[k], collected'[k])
                            own == {i \in pop_age : OwnList(pop[i]) = list}
                        IN  /\ Len(new) = Cardinality(own)
                            /\ \A h \in Levels :
                                  Readings(new, h) =
                                      Cardinality({i \in own : pop[i].hemoglobin_level = h})]_vars

\* A collect_metrics with a covered responsive male and an uncovered
\* non-responsive female in the band of age 1.0 has been handled: each list
\* of the two holds one reading.
C26_Witness ==
    /\ phase = "forward"
    /\ raised = "none"
    /\ \E i, j \in PopAge(pop, "1.0") :
          /\ OwnList(pop[i]) = <<"male", "covered", "responsive">>
          /\ OwnList(pop[j]) = <<"female", "uncovered", "non-responsive">>
    /\ Len(collected[HbCollectKey("male", "1.0", "covered", "responsive")]) = 1
    /\ Len(collected[HbCollectKey("female", "1.0", "uncovered", "non-responsive")]) = 1

(***************************************************************************)
(* The pairs of keys of the births observer (BirthSpec).                   *)
(***************************************************************************)
\* The spans, sexes and stratification groups get_births writes a pair of
\* keys for.
BirthCells ==
    (IF configuration.by_year THEN YearOf(SimStart)..YearOf(SimEnd) ELSE {0})
    \X SexIterable(configuration) \X DOMAIN GroupLabels

\* The key of a cell for a measure.
BirthCellKey(measure, cell) ==
    update_label(OutputTemplate([configuration EXCEPT !.by_age = FALSE], measure,
                                ToString(cell[1]), SexLabel(cell[2]), ""),
                 GroupLabels[cell[3]])

\* The simulants of a cell: entered during the run, in the cell's year, of the
\* cell's sex and stratification group.
BirthWindow(cell) ==
    {i \in Entrants :
        /\ configuration.by_year => YearOf(pop[i].entrance_time) = cell[1]
        /\ configuration.by_sex => pop[i].sex = cell[2]
        /\ folic_acid_covered(pop)[i] = GroupLabels[cell[3]][1]
        /\ vitamin_a_covered(pop)[i] = GroupLabels[cell[3]][2]}

\* C27: the births observer writes its keys in pairs, a live_births key and a
\* born_with_ntds key with the same year, sex and stratification suffix; the
\* live_births count is the number of simulants of the pair's entrance-time
\* window, the born_with_ntds count the number of those of them with the
\* defect, hence never the larger.
C27_NTDBirthsWithinBirths ==
    "births" \in applied =>
        /\ DOMAIN metrics =
              {BirthCellKey(m, cell) : m \in {"live_births", "born_with_ntds"}, cell \in BirthCells}
        /\ \A cell \in BirthCells :
              LET live == metrics[BirthCellKey("live_births", cell)]
                  with_ntds == metrics[BirthCellKey("born_with_ntds", cell)]
              IN  /\ with_ntds <= live
                  /\ live = Cardinality(BirthWindow(cell))
                  /\ with_ntds = Cardinality(WithNTD(BirthWindow(cell)))

\* Births counted per year and sex: a pair with a birth with the defect, a
\* pair with a birth without it, and a simulant with the defect that entered
\* outside the run and is in no count.
C27_Witness ==
    /\ "births" \in applied
    /\ configuration.by_year /\ configuration.by_sex
    /\ \E cell \in BirthCells :
          /\ metrics[BirthCellKey("live_births", cell)] = 1
          /\ metrics[BirthCellKey("born_with_ntds", cell)] = 0
    /\ \E i \in Index(pop) \ Entrants : pop[i].neural_tube_defects = NTD_MODEL_NAME
    /\ Sum(metrics, "born_with_ntds") = 0

(***************************************************************************)
(* LBWSGObserver over a run in which simulants are created in batches: the *)
(* initial population, then the simulants born during a time step.         *)
(***************************************************************************)
\* Row j of a batch: a light, preterm newborn or a heavier one born at term.
LBWSGRow(j, small) ==
    [sex |-> IF j % 2 = 1 THEN "Male" ELSE "Female",
     birth_weight |-> (IF small THEN 2000 ELSE 3000) + 100 * j,
     gestation_time |-> IF small THEN 36 ELSE 40]

LBWSGInit ==
    /\ pop = [i \in {} |-> 0]
    /\ configuration = AllOn
    /\ now = 0
    /\ phase = "setup"
    /\ mortality_person_time = EmptyMap
    /\ person_time = EmptyMap
    /\ counts = EmptyMap
    /\ anemia_person_time = EmptyMap
    /\ updates = EmptyHistory
    /\ metrics = EmptyMap
    /\ groups = NotCalled
    /\ ReshaperIdle
    /\ ObserversIdle
    /\ happened = NothingHappened
    /\ ToolsIdle

lbwsgFrame == <<mortality_person_time, person_time, counts, anemia_person_time, updates,
                configuration, groups, codecVars, results, collected,
                years_lived_with_disability, happened, raised, returned, tableVars, columnVars,
                buildVars>>

\* The host creates n simulants, the first `small` of them light and preterm,
\* and calls LBWSGObserver.on_initialize_simulants with their index.
SimulantCreation(n, small) ==
    LET first == Cardinality(Index(pop))
        index == (first + 1)..(first + n)
        created == pop @@ [i \in index |-> LBWSGRow(i - first, i - first <= small)]
    IN  /\ pop' = created
        /\ pop_data' = index
        /\ lbwsg_results' =
              LBWSGObserver_on_initialize_simulants(lbwsg_results, Restrict(created, index))

\* The initial population.
LBWSGInitialPopulation ==
    /\ phase = "setup"
    /\ \E n \in 0..NSims : \E small \in 0..n : SimulantCreation(n, small)
    /\ phase' = "time_step"
    /\ UNCHANGED <<now, metrics, applied, lbwsgFrame>>

\* Simulants born during a time step.
LBWSGBirths ==
    /\ phase = "time_step"
    /\ \E n \in 0..NSims : \E small \in 0..n : SimulantCreation(n, small)
    /\ phase' = "step_end"
    /\ UNCHANGED <<now, metrics, applied, lbwsgFrame>>

\* The step ends, with or without births; the run ends after MaxSteps steps.
LBWSGStepForward ==
    /\ phase \in {"time_step", "step_end"}
    /\ now' = now + 1
    /\ phase' = IF now + 1 = MaxSteps THEN "finished" ELSE "time_step"
    /\ UNCHANGED <<pop, pop_data, lbwsg_results, metrics, applied, lbwsgFrame>>

LBWSGNext ==
    \/ LBWSGInitialPopulation
    \/ LBWSGBirths
    \/ LBWSGStepForward
    \/ LBWSGMetrics

LBWSGSpec == LBWSGInit /\ [][LBWSGNext]_vars

\* The statistics of the batch created last.
LastBatchStats == get_lbwsg_stats(Restrict(pop, pop_data))

\* C28: the six values LBWSGObserver holds, and reports at metrics time, are
\* the statistics of the batch of simulants initialized last and of no
\* earlier batch; after an empty batch they are all zero.
C28_LastBatchOnly ==
    phase # "setup" =>
        /\ lbwsg_results["birth_weight_mean"] = LastBatchStats["birth_weight_mean"]
        /\ lbwsg_results = LastBatchStats
        /\ pop_data = {} => \A k \in DOMAIN lbwsg_results : lbwsg_results[k] = Ratio(0, 1)
        /\ "lbwsg" \in applied =>
              \A k \in DOMAIN LastBatchStats : metrics[k] = LastBatchStats[k]

\* Metrics are reported after a batch with simulants was followed by an empty
\* one.
C28_Witness ==
    /\ "lbwsg" \in applied
    /\ pop_data = {}
    /\ Index(pop) # {}
    /\ metrics["birth_weight_mean"] = Ratio(0, 1)
    /\ metrics["gestational_age_proportion_below_37w"] = Ratio(0, 1)

(***************************************************************************)
(* RESULT_COLUMNS of globals.py, called again and again after the import.  *)
(* STATES and TRANSITIONS are generator objects: a generator yields its    *)
(* items once, and is finished once it has raised.                         *)
(***************************************************************************)
MaxCalls == 3       \* RESULT_COLUMNS calls in a behaviour

POP_STATES == <<"living", "dead", "tracked", "untracked">>
AGE_GROUPS == <<>>
STANDARD_COLUMNS == <<"total_population", "years_of_life_lost", "years_lived_with_disability">>

\* (DIARRHEA_MODEL_NAME): parentheses around one string, not a tuple.
DISEASE_MODELS == DIARRHEA_MODEL_NAME
DISEASE_MODEL_MAP ==
    [model \in {DIARRHEA_MODEL_NAME} |->
        [states |-> DIARRHEA_MODEL_STATES, transitions |-> DIARRHEA_MODEL_TRANSITIONS]]

\* Iterating a string yields its characters.
Iterate(string) == [j \in 1..Len(string) |-> SubSeq(string, j, j)]

\* The keys of COLUMN_TEMPLATES in the order of the dictionary, and each
\* template as its literal parts and its {FIELD} parts.
COLUMN_TEMPLATE_KEYS ==
    <<"population", "person_time", "deaths", "ylls", "ylds", "state_person_time",
      "transition_count">>
Stratified == <<"_in_", "{YEAR}", "_among_", "{SEX}", "_in_age_group_", "{AGE_GROUP}">>
ColumnTemplate(kind) ==
    CASE kind = "population" -> <<"total_population_", "{POP_STATE}">>
      [] kind = "person_time" -> <<"person_time">> \o Stratified
      [] kind = "deaths" -> <<"death_due_to_", "{CAUSE_OF_DEATH}">> \o Stratified
      [] kind = "ylls" -> <<"ylls_due_to_", "{CAUSE_OF_DEATH}">> \o Stratified
      [] kind = "ylds" -> <<"ylds_due_to_", "{CAUSE_OF_DISABILITY}">> \o Stratified
      [] kind = "state_person_time" -> <<"{STATE}", "_person_time">> \o Stratified
      [] kind = "transition_count" -> <<"{TRANSITION}", "_event_count">> \o Stratified

\* The keys of TEMPLATE_FIELD_MAP in the order of the dictionary.
TEMPLATE_FIELDS ==
    <<"POP_STATE", "YEAR", "SEX", "AGE_GROUP", "CAUSE_OF_DEATH", "CAUSE_OF_DISABILITY",
      "STATE", "TRANSITION">>
GeneratorFields == {"STATE", "TRANSITION"}

\* tuple(generator) for STATES or TRANSITIONS: nothing from a finished
\* generator; otherwise the items of every model, KeyError at a model that is
\* no key of DISEASE_MODEL_MAP.
RECURSIVE ItemsOf(_, _)
ItemsOf(models, which) ==
    IF models = <<>> THEN <<>>
    ELSE DISEASE_MODEL_MAP[Head(models)][which] \o ItemsOf(Tail(models), which)

Drain(field, finished) ==
    LET models == Iterate(DISEASE_MODELS)
        which == IF field = "STATE" THEN "states" ELSE "transitions"
    IN  IF field \in finished THEN [raised |-> "none", values |-> <<>>]
        ELSE IF \E j \in DOMAIN models : models[j] \notin DOMAIN DISEASE_MODEL_MAP
             THEN [raised |-> "KeyError", values |-> <<>>]
             ELSE [raised |-> "none", values |-> ItemsOf(models, which)]

\* The values TEMPLATE_FIELD_MAP holds for a field that is no generator.
FieldValues(field) ==
    CASE field = "POP_STATE" -> POP_STATES
      [] field = "YEAR" -> YEARS
      [] field = "SEX" -> SEXES
      [] field = "AGE_GROUP" -> AGE_GROUPS
      [] field = "CAUSE_OF_DEATH" -> CAUSES_OF_DEATH
      [] field = "CAUSE_OF_DISABILITY" -> CAUSES_OF_DISABILITY

\* itertools.product of the pools, the rightmost pool advancing fastest.
RECURSIVE Product(_)
Product(pools) ==
    IF pools = <<>> THEN << <<>> >>
    ELSE LET rest == Product(Tail(pools))
             RECURSIVE From(_)
             From(j) == IF j > Len(Head(pools)) THEN <<>>
                        ELSE [r \in DOMAIN rest |-> <<Head(pools)[j]>> \o rest[r]] \o From(j + 1)
         IN  From(1)

\* template.format(**{field: value}): the parts joined, each {FIELD} replaced
\* by the field's value in the group.
RECURSIVE Format(_, _, _)
Format(template, fields, value_group) ==
    IF template = <<>> THEN ""
    ELSE LET part == Head(template)
             at == {j \in DOMAIN fields : part = "{" \o fields[j] \o "}"}
         IN  (IF at = {} THEN part ELSE value_group[CHOOSE j \in at : TRUE])
             \o Format(Tail(template), fields, value_group)

\* RESULT_COLUMNS(kind) for a key of COLUMN_TEMPLATES: what it raises, the
\* list it returns, and the generators finished afterwards.
TemplateColumns(kind, finished) ==
    LET template == ColumnTemplate(kind)
        fields == SelectSeq(TEMPLATE_FIELDS,
                            LAMBDA f : \E j \in DOMAIN template : template[j] = "{" \o f \o "}")
        used == {fields[j] : j \in DOMAIN fields} \cap GeneratorFields
        drained == [f \in used |-> Drain(f, finished)]
        pools == [j \in DOMAIN fields |->
                    IF fields[j] \in used THEN drained[fields[j]].values
                    ELSE FieldValues(fields[j])]
        value_groups == Product(pools)
    IN  IF \E f \in used : drained[f].raised # "none"
        THEN [raised |-> "KeyError", columns |-> <<>>, finished |-> finished \cup used]
        ELSE [raised |-> "none",
              columns |-> [g \in DOMAIN value_groups |-> Format(template, fields, value_groups[g])],
              finished |-> finished \cup used]

\* The loop of RESULT_COLUMNS('all') from key j on; an exception of a nested
\* call ends it.
RECURSIVE AllColumns(_, _, _)
AllColumns(j, columns, finished) ==
    IF j > Len(COLUMN_TEMPLATE_KEYS)
    THEN [raised |-> "none", columns |-> STANDARD_COLUMNS \o columns, finished |-> finished]
    ELSE LET nested == TemplateColumns(COLUMN_TEMPLATE_KEYS[j], finished)
         IN  IF nested.raised # "none" THEN nested
             ELSE AllColumns(j + 1, columns \o nested.columns, nested.finished)

\* RESULT_COLUMNS(kind)
RESULT_COLUMNS(kind, finished) ==
    IF RESULT_COLUMNS_raises(kind)
    THEN [raised |-> "ValueError", columns |-> <<>>, finished |-> finished]
    ELSE IF kind = "all" THEN AllColumns(1, <<>>, finished)
    ELSE TemplateColumns(kind, finished)

\* The kinds the callers pass: the keys, 'all', and one that is no key.
Kinds == COLUMN_TEMPLATES \cup {"all", "births"}

ColumnsInit ==
    /\ NoSimulation
    /\ TablesIdle
    /\ pop_data = {}
    /\ BuildIdle
    /\ calls = <<>>
    /\ spent = {}

\* A caller calls RESULT_COLUMNS(kind).
CallResultColumns ==
    /\ Len(calls) < MaxCalls
    /\ \E kind \in Kinds :
          LET call == RESULT_COLUMNS(kind, spent)
          IN  /\ calls' = Append(calls, [kind |-> kind, raised |-> call.raised,
                                         columns |-> call.columns])
              /\ spent' = call.finished
    /\ UNCHANGED <<simVars, groups, codecVars, obsVars, happened, tableVars, pop_data, buildVars>>

ColumnsNext == CallResultColumns

ColumnsSpec == ColumnsInit /\ [][ColumnsNext]_vars

\* C29: RESULT_COLUMNS is repeatable: a call with a key of COLUMN_TEMPLATES or
\* with 'all' returns a list without raising, the same list as every earlier
\* call with the same kind; a call with any other kind raises ValueError.
C29_ResultColumnsRepeatable ==
    \A j \in DOMAIN calls :
        IF calls[j].kind \in COLUMN_TEMPLATES \cup {"all"}
        THEN /\ calls[j].raised = "none"
             /\ \A k \in 1..(j - 1) : calls[k].kind = calls[j].kind => calls[k] = calls[j]
        ELSE calls[j].raised = "ValueError"

(***************************************************************************)
(* build_all_artifacts of tools/make_artifacts.py: one cluster job per     *)
(* location, then, if verbose, a loop that polls every job until all have  *)
(* ended.  The cluster runs the jobs on its own.                           *)
(***************************************************************************)
LOCATIONS == <<"India", "Nigeria", "Ethiopia">>

\* drmaa.JobState, as far as a job passes through it here.
UNDETERMINED == "undetermined"
QUEUED_ACTIVE == "queued_active"
RUNNING == "running"
DONE == "done"
FAILED == "failed"

\* The test of the while loop, with all() in the place of any().
AllUnfinished(held) ==
    \A location \in DOMAIN held : held[location].status \notin {DONE, FAILED}

\* any([job[1] not in [DONE, FAILED] for job in jobs.values()])
AnyUnfinished(held) ==
    \E location \in DOMAIN held : held[location].status \notin {DONE, FAILED}

\* session.jobStatus(job_id): the state the cluster holds for the job.
jobStatus(job_id) == cluster[job_id].state

\* build_all_artifacts is called on a cluster node, with or without verbose.
BuildInit ==
    /\ NoSimulation
    /\ TablesIdle
    /\ pop_data = {}
    /\ ColumnsIdle
    /\ verbose \in BOOLEAN
    /\ pc = "for_location"
    /\ cursor = 1
    /\ jobs = [location \in {} |-> 0]
    /\ cluster = <<>>
    /\ polled = FALSE

buildFrame == <<simVars, groups, codecVars, obsVars, happened, tableVars, pop_data, columnVars>>

\* One pass of `for location in project_globals.LOCATIONS`: session.runJob
\* queues a job, jobs[location] holds its id and UNDETERMINED.
SubmitJob ==
    /\ pc = "for_location"
    /\ cursor <= Len(LOCATIONS)
    /\ cluster' = Append(cluster, [location |-> LOCATIONS[cursor], state |-> QUEUED_ACTIVE])
    /\ jobs' = (LOCATIONS[cursor] :> [job_id |-> Len(cluster) + 1, status |-> UNDETERMINED])
               @@ jobs
    /\ cursor' = cursor + 1
    /\ UNCHANGED <<verbose, pc, polled, buildFrame>>

\* `if verbose:` after the last location; without verbose the function is done.
IfVerbose ==
    /\ pc = "for_location"
    /\ cursor > Len(LOCATIONS)
    /\ pc' = IF verbose THEN "while" ELSE "returned"
    /\ UNCHANGED <<verbose, cursor, jobs, cluster, polled, buildFrame>>

\* The test of the while loop.
WhileTest ==
    /\ pc = "while"
    /\ pc' = IF AnyUnfinished(jobs) THEN "for_job" ELSE "returned"
    /\ cursor' = 1
    /\ UNCHANGED <<verbose, jobs, cluster, polled, buildFrame>>

\* One pass of `for location, (job_id, status) in jobs.items()`, in the order
\* the locations were inserted.
PollJob ==
    /\ pc = "for_job"
    /\ LET location == LOCATIONS[cursor]
       IN  jobs' = [jobs EXCEPT ![location].status = jobStatus(jobs[location].job_id)]
    /\ polled' = TRUE
    /\ cursor' = cursor + 1
    /\ pc' = IF cursor = Len(LOCATIONS) THEN "sleep" ELSE "for_job"
    /\ UNCHANGED <<verbose, cluster, buildFrame>>

\* time.sleep(MAKE_ARTIFACT_SLEEP) returns.
Sleep ==
    /\ pc = "sleep"
    /\ pc' = "while"
    /\ UNCHANGED <<verbose, cursor, jobs, cluster, polled, buildFrame>>

\* The cluster starts a queued job, or a job ends or fails.
ClusterStep ==
    /\ \E job_id \in DOMAIN cluster : \E state \in {RUNNING, DONE, FAILED} :
          /\ \/ cluster[job_id].state = QUEUED_ACTIVE /\ state \in {RUNNING, FAILED}
             \/ cluster[job_id].state = RUNNING /\ state \in {DONE, FAILED}
          /\ cluster' = [cluster EXCEPT ![job_id].state = state]
    /\ UNCHANGED <<verbose, pc, cursor, jobs, polled, buildFrame>>

\* The statements of build_all_artifacts.
BuildStep == SubmitJob \/ IfVerbose \/ WhileTest \/ PollJob \/ Sleep

BuildNext ==
    \/ SubmitJob
    \/ IfVerbose
    \/ WhileTest
    \/ PollJob
    \/ Sleep
    \/ ClusterStep

BuildSpec == BuildInit /\ [][BuildNext]_vars

\* The function is a sequential program that keeps running: runJob and
\* jobStatus return, the sleep ends after MAKE_ARTIFACT_SLEEP seconds.  Nothing
\* is assumed of the cluster.
BuildFairSpec == BuildInit /\ [][BuildNext]_vars /\ WF_vars(BuildStep)

\* One job per entry of LOCATIONS, in order, each under its location in jobs.
OneJobPerLocation ==
    /\ Len(cluster) = Len(LOCATIONS)
    /\ \A j \in DOMAIN LOCATIONS :
          /\ cluster[j].location = LOCATIONS[j]
          /\ jobs[LOCATIONS[j]].job_id = j

AllJobsEnded ==
    /\ Len(cluster) = Len(LOCATIONS)
    /\ \A job_id \in DOMAIN cluster : cluster[job_id].state \in {DONE, FAILED}

====
